---- MODULE Spec2Model ----
(***************************************************************************)
(* Round lifecycle and automation trigger of lodestar-cli.                 *)
(*                                                                         *)
(* The application state (state.mjs appState) is one record; the event     *)
(* handlers of game.mjs (processBoardUpdate, processRoundUpdate,           *)
(* updateCountdown) are cut at their awaits: one action per synchronous    *)
(* segment.  The ledger (board account, round accounts, slot clock) is     *)
(* the environment.                                                        *)
(***************************************************************************)
EXTENDS Integers, Sequences, FiniteSets, Bags, TLC

\* ---------------------------------------------------------------- bounds
MaxRound == 2          \* ledger rounds are 0..MaxRound
MaxTasks == 2          \* handler invocations suspended at an await

\* ------------------------------------------------------ program constants
AUTOMATION_TRIGGER_SECONDS == 8
MS_PER_SLOT == 400
NUM_SQUARES == 25

\* appMode values (constants.mjs APP_MODES)
APP_MODES == [IDLE |-> "idle", ONE_X_EV |-> "1x EV", THREE_X_EV |-> "3x EV",
              FIVE_X_EV |-> "5x EV", TWENTY_FIVE_X_EV |-> "25x EV"]

AppModeValues == {APP_MODES[k] : k \in DOMAIN APP_MODES}

\* JavaScript null / a present value
Null == <<>>
Some(x) == <<x>>
IsNull(v) == v = <<>>
Val(v) == v[1]

\* -------------------------------------------------- solana.mjs: RNG helpers
RECURSIVE BitXor(_, _)
\* JavaScript ^ on non-negative integers
BitXor(a, b) ==
  IF a = 0 THEN b
  ELSE IF b = 0 THEN a
  ELSE ((a + b) % 2) + 2 * BitXor(a \div 2, b \div 2)

\* variant: only the first word of the block is looked at
isSlotHashPopulated_FirstWord(slotHash) == \E i \in 1..8 : slotHash[i] # 0

\* slot_hash is a 32-byte buffer: a sequence of bytes 0..255
isSlotHashPopulated(slotHash) ==
  \E i \in 1..Len(slotHash) : slotHash[i] # 0

\* slotHash.readBigUInt64LE(offset): a 64-bit BigInt, held as its eight
\* bytes, least significant first
readBigUInt64LE(slotHash, offset) == SubSeq(slotHash, offset + 1, offset + 8)

\* BigInt ^ on two 64-bit values
BigXor(a, b) == [i \in 1..8 |-> BitXor(a[i], b[i])]

\* variant: the last word is left out of the xor
calculateRng_ThreeWords(slotHash) ==
  BigXor(BigXor(SubSeq(slotHash, 1, 8), SubSeq(slotHash, 9, 16)),
         SubSeq(slotHash, 17, 24))

calculateRng(slotHash) ==
  LET r1 == readBigUInt64LE(slotHash, 0)
      r2 == readBigUInt64LE(slotHash, 8)
      r3 == readBigUInt64LE(slotHash, 16)
      r4 == readBigUInt64LE(slotHash, 24)
  IN BigXor(BigXor(BigXor(r1, r2), r3), r4)

RECURSIVE BigMod(_, _)
\* BigInt % m of the value b[1] + 256 * b[2] + 256^2 * b[3] + ...
BigMod(b, m) ==
  IF b = <<>> THEN 0 ELSE (b[1] + 256 * BigMod(Tail(b), m)) % m

\* Number(rng % 25n)
getWinningSquare(rng) == BigMod(rng, 25)

\* ------------------------------------------------------------ ev.mjs
\* Amounts are integers in one money unit (the formulas are homogeneous, so
\* the unit cancels).  EV values are carried multiplied by EV_SCALE = 24750
\* = 10 * 25 * 99, which clears PROTOCOL_CUT = 1/10, P_WIN = 1/25 and
\* ADMIN_COST_FACTOR = 1/99; C = 24 + 25/99 = 2401/99.
NegInfinity == -2147483647
\* the other non-finite doubles, as values no amount of the model reaches
PosInfinity == 2147483646
NaN == 2147483647

\* JavaScript isFinite on a number
isFinite(x) == x \notin {NaN, PosInfinity, NegInfinity}

RECURSIVE SqrtSearch(_, _, _)
SqrtSearch(n, lo, hi) ==
  IF lo >= hi THEN lo
  ELSE LET mid == (lo + hi + 1) \div 2
       IN IF mid * mid <= n THEN SqrtSearch(n, mid, hi)
          ELSE SqrtSearch(n, lo, mid - 1)

\* floor(Math.sqrt(n)) for n >= 0
Sqrt(n) == SqrtSearch(n, 0, IF n < 46340 THEN n ELSE 46340)

\* ten times the pool value V = (1 - PROTOCOL_CUT) * (T - O - y) + oreValue
PoolValue10(O, T, y, oreValueInSOL) == 9 * (T - O - y) + 10 * oreValueInSOL

RECURSIVE RefineY(_, _, _, _, _, _)
\* the for loop of computeEVStarForBlock: i iterations left, current yStar, V
\* (ten times its value); yStar is Math.max(0, Math.sqrt((V * O) / C) - O)
RefineY(i, O, T, oreValueInSOL, yStar, V10) ==
  IF i = 0 THEN [y |-> yStar, V10 |-> V10]
  ELSE LET V == PoolValue10(O, T, yStar, oreValueInSOL)
       IN IF V <= 0 THEN [y |-> yStar, V10 |-> V]
          ELSE LET sqrtVOverC == Sqrt((V * O * 99) \div 24010)
               IN RefineY(i - 1, O, T, oreValueInSOL,
                          IF sqrtVOverC - O >= 0 THEN sqrtVOverC - O ELSE 0,
                          V)

\* variant: the pool guard lets a pool value of exactly zero through
computeEVStarForBlock_StrictPoolGuard(O, T, oreValueInSOL) ==
  IF ~isFinite(O) \/ O <= 0 THEN [y |-> 0, EV |-> NegInfinity]
  ELSE IF ~isFinite(T) \/ T <= 0 THEN [y |-> 0, EV |-> NegInfinity]
  ELSE IF ~isFinite(oreValueInSOL) THEN [y |-> NaN, EV |-> NaN]
  ELSE LET V_initial == PoolValue10(O, T, 0, oreValueInSOL)
       IN IF V_initial < 0 THEN [y |-> 0, EV |-> NegInfinity]
          ELSE LET r == RefineY(3, O, T, oreValueInSOL,
                                Sqrt((oreValueInSOL * O * 99) \div 2401),
                                V_initial)
               IN IF r.y <= 0 THEN [y |-> 0, EV |-> 0]
                  ELSE [y |-> r.y,
                        EV |-> 99 * ((r.V10 * r.y) \div (O + r.y) - 240 * r.y)
                               - 250 * r.y]

\* variant: a zero optimum is reported like a rejected input
computeEVStarForBlock_ZeroIsClosed(O, T, oreValueInSOL) ==
  IF ~isFinite(O) \/ O <= 0 THEN [y |-> 0, EV |-> NegInfinity]
  ELSE IF ~isFinite(T) \/ T <= 0 THEN [y |-> 0, EV |-> NegInfinity]
  ELSE IF ~isFinite(oreValueInSOL) THEN [y |-> NaN, EV |-> NaN]
  ELSE LET V_initial == PoolValue10(O, T, 0, oreValueInSOL)
       IN IF V_initial <= 0 THEN [y |-> 0, EV |-> NegInfinity]
          ELSE LET r == RefineY(3, O, T, oreValueInSOL,
                                Sqrt((oreValueInSOL * O * 99) \div 2401),
                                V_initial)
               IN IF r.y <= 0 THEN [y |-> 0, EV |-> NegInfinity]
                  ELSE [y |-> r.y,
                        EV |-> 99 * ((r.V10 * r.y) \div (O + r.y) - 240 * r.y)
                               - 250 * r.y]

\* The guards on O and T test isFinite; the reward value is not tested.
\* With oreValueInSOL = -Infinity the pool value is -Infinity <= 0.  With NaN
\* every comparison is false: V_initial, Math.sqrt, Math.max(0, NaN) and EV are
\* NaN.  With +Infinity, yStar = Infinity and V = -Infinity + Infinity = NaN
\* in the first pass of the loop, and NaN from there on.
computeEVStarForBlock(O, T, oreValueInSOL) ==
  IF ~isFinite(O) \/ O <= 0 THEN [y |-> 0, EV |-> NegInfinity]
  ELSE IF ~isFinite(T) \/ T <= 0 THEN [y |-> 0, EV |-> NegInfinity]
  ELSE IF oreValueInSOL = NegInfinity THEN [y |-> 0, EV |-> NegInfinity]
  ELSE IF ~isFinite(oreValueInSOL) THEN [y |-> NaN, EV |-> NaN]
  ELSE LET V_initial == PoolValue10(O, T, 0, oreValueInSOL)
       IN IF V_initial <= 0 THEN [y |-> 0, EV |-> NegInfinity]
          ELSE LET r == RefineY(3, O, T, oreValueInSOL,
                                Sqrt((oreValueInSOL * O * 99) \div 2401),
                                V_initial)
                   yStar == r.y
               IN IF yStar <= 0 THEN [y |-> 0, EV |-> 0]
                  ELSE [y |-> yStar,
                        EV |-> 99 * ((r.V10 * yStar) \div (O + yStar)
                                     - 240 * yStar)
                               - 250 * yStar]

\* oreValueInSOL = priceOreSol * REF_MULT * (1 + M * HIT_PROB); the motherlode
\* is held in whole ORE (10^11 base units), REF_MULT = 9/10, HIT_PROB = 1/625
getOreValueInSOL(roundData, priceOreSol) ==
  IF ~isFinite(priceOreSol) THEN priceOreSol
  ELSE (priceOreSol * 9 * (625 + roundData.motherlode)) \div 6250

\* ------------------------------------------------------- detection.mjs
\* variant: among equal EVs the last one is taken first
RECURSIVE SortedByEV_LastOfTies(_)
SortedByEV_LastOfTies(evs) ==
  IF evs = <<>> THEN <<>>
  ELSE LET best == CHOOSE i \in 1..Len(evs) :
                     /\ \A j \in 1..Len(evs) : evs[j].ev <= evs[i].ev
                     /\ \A j \in (i + 1)..Len(evs) : evs[j].ev < evs[i].ev
       IN <<evs[best]>> \o
          SortedByEV_LastOfTies(SubSeq(evs, 1, best - 1)
                                \o SubSeq(evs, best + 1, Len(evs)))

RECURSIVE SortedByEV(_)
\* evs.sort((a, b) => b.ev - a.ev): stable, so equal EVs keep index order
SortedByEV(evs) ==
  IF evs = <<>> THEN <<>>
  ELSE LET best == CHOOSE i \in 1..Len(evs) :
                     /\ \A j \in 1..Len(evs) : evs[j].ev <= evs[i].ev
                     /\ \A j \in 1..(i - 1) : evs[j].ev < evs[i].ev
       IN <<evs[best]>> \o
          SortedByEV(SubSeq(evs, 1, best - 1) \o SubSeq(evs, best + 1, Len(evs)))

analyzeBoardState(roundData, priceOreSol) ==
  IF IsNull(roundData)
  THEN [bestEV |-> Null, byEV |-> <<>>]
  ELSE LET rd == Val(roundData)
           T == rd.total_deployed
           oreValueInSOL == getOreValueInSOL(rd, priceOreSol)
           evs == [i \in 1..NUM_SQUARES |->
                     [id |-> i, sol |-> rd.deployed[i],
                      \* evValue = isFinite(EV) ? EV : -Infinity
                      ev |-> LET EV == computeEVStarForBlock(
                                         rd.deployed[i], T, oreValueInSOL).EV
                             IN IF isFinite(EV) THEN EV ELSE NegInfinity]]
           sortedByEV == SortedByEV(SelectSeq(evs, LAMBDA e : e.ev > 0))
       IN [bestEV |-> IF sortedByEV = <<>> THEN Null ELSE Some(sortedByEV[1]),
           byEV |-> sortedByEV]

\* ratio = (countVal > 0) ? (sol / countVal) : Infinity, held as the fraction
\* sol / count; a count of 0 stands for Infinity
RatioLess(a, b) == a.sol * b.count < b.sol * a.count

\* variant: the ratios are sorted from the highest down
RECURSIVE SortedByRatio_Descending(_)
SortedByRatio_Descending(ratios) ==
  IF ratios = <<>> THEN <<>>
  ELSE LET best == CHOOSE i \in 1..Len(ratios) :
                     /\ \A j \in 1..Len(ratios) : ~RatioLess(ratios[i], ratios[j])
                     /\ \A j \in 1..(i - 1) : RatioLess(ratios[j], ratios[i])
       IN <<ratios[best]>> \o
          SortedByRatio_Descending(SubSeq(ratios, 1, best - 1)
                                   \o SubSeq(ratios, best + 1, Len(ratios)))

RECURSIVE SortedByRatio(_)
\* ratios.sort((a, b) => a.ratio - b.ratio): stable, lowest ratio first
SortedByRatio(ratios) ==
  IF ratios = <<>> THEN <<>>
  ELSE LET best == CHOOSE i \in 1..Len(ratios) :
                     /\ \A j \in 1..Len(ratios) : ~RatioLess(ratios[j], ratios[i])
                     /\ \A j \in 1..(i - 1) : RatioLess(ratios[i], ratios[j])
       IN <<ratios[best]>> \o
          SortedByRatio(SubSeq(ratios, 1, best - 1)
                        \o SubSeq(ratios, best + 1, Len(ratios)))

\* the ratio half of analyzeBoardState: bestRatio and byRatio
analyzeBoardRatios(roundData) ==
  IF IsNull(roundData)
  THEN [bestRatio |-> Null, byRatio |-> <<>>]
  ELSE LET rd == Val(roundData)
           ratios == [i \in 1..NUM_SQUARES |->
                        [id |-> i, sol |-> rd.deployed[i],
                         count |-> rd.count[i]]]
           sortedByRatio == SortedByRatio(
                              \* r.ratio < Infinity && r.ratio > 0
                              SelectSeq(ratios,
                                        LAMBDA r : r.count > 0 /\ r.sol > 0))
       IN [bestRatio |-> IF sortedByRatio = <<>> THEN Null
                         ELSE Some(sortedByRatio[1]),
           byRatio |-> sortedByRatio]

Take(s, k) == SubSeq(s, 1, IF Len(s) < k THEN Len(s) ELSE k)

\* the ev of square i as the loop of analyzeBoardState computes it
SquareEV(rd, priceOreSol, i) ==
  LET EV == computeEVStarForBlock(rd.deployed[i], rd.total_deployed,
                                  getOreValueInSOL(rd, priceOreSol)).EV
  IN IF isFinite(EV) THEN EV ELSE NegInfinity

\* the squares that pass the filter e.ev > 0
PositiveEVSquares(rd, priceOreSol) ==
  {i \in 1..NUM_SQUARES : SquareEV(rd, priceOreSol, i) > 0}

\* ------------------------------------------------------ automation.mjs
\* Object.assign(appState, newState)
setAppState(st, newState) ==
  [f \in DOMAIN st |-> IF f \in DOMAIN newState THEN newState[f] ELSE st[f]]

resetRoundFlags(st) ==
  setAppState(st, [automationHasRunThisRound |-> FALSE,
                   checkpointHasRunThisRound |-> FALSE])

\* variant: the top-k modes cut the unsorted list of positive-EV squares
SelectTargets_Unsorted(appMode, analysis) ==
  LET byId == SortedByEV([i \in 1..Len(analysis.byEV) |->
                            [analysis.byEV[i] EXCEPT !.ev = 0 - analysis.byEV[i].id]])
  IN CASE appMode = APP_MODES.ONE_X_EV ->
            IF IsNull(analysis.bestEV) THEN <<>> ELSE <<Val(analysis.bestEV)>>
       [] appMode = APP_MODES.THREE_X_EV -> Take(byId, 3)
       [] appMode = APP_MODES.FIVE_X_EV -> Take(byId, 5)
       [] OTHER -> <<>>

\* the targets chosen by the switch on appMode
SelectTargets(appMode, analysis) ==
  CASE appMode = APP_MODES.ONE_X_EV ->
         IF IsNull(analysis.bestEV) THEN <<>> ELSE <<Val(analysis.bestEV)>>
    [] appMode = APP_MODES.THREE_X_EV -> Take(analysis.byEV, 3)
    [] appMode = APP_MODES.FIVE_X_EV -> Take(analysis.byEV, 5)
    [] OTHER -> <<>>

\* The outcome of one call: the application state it leaves, and what it did
\* (passed its guards, ran the analysis, the targets it logged, whether it
\* called sendDeployTx).
AutoResult(st, fired, analysed, targets, deploy) ==
  [state |-> st, fired |-> fired, analysed |-> analysed,
   targets |-> targets, deploy |-> deploy]

\* variant: sendDeployTx is called whether or not a signer is loaded
FireAutomation_DeployWithoutSigner(st, roundData, signer) ==
  LET st1 == setAppState(st, [automationHasRunThisRound |-> TRUE])
      analysis == analyzeBoardState(roundData, st1.priceOreSol)
      targets == SelectTargets(st1.appMode, analysis)
  IN IF IsNull(analysis.bestEV) THEN AutoResult(st1, TRUE, TRUE, <<>>, FALSE)
     ELSE IF Len(targets) = 0 THEN AutoResult(st1, TRUE, TRUE, <<>>, FALSE)
     ELSE IF st1.isSpeculating THEN AutoResult(st1, TRUE, TRUE, targets, FALSE)
     ELSE AutoResult(st1, TRUE, TRUE, targets, TRUE)

\* variant: the flag is given back when the analysis finds no target
FireAutomation_RetryWithoutTarget(st, roundData, signer) ==
  LET st1 == setAppState(st, [automationHasRunThisRound |-> TRUE])
      analysis == analyzeBoardState(roundData, st1.priceOreSol)
      targets == SelectTargets(st1.appMode, analysis)
  IN IF IsNull(analysis.bestEV) THEN AutoResult(st, TRUE, TRUE, <<>>, FALSE)
     ELSE IF Len(targets) = 0 THEN AutoResult(st, TRUE, TRUE, <<>>, FALSE)
     ELSE IF st1.isSpeculating THEN AutoResult(st1, TRUE, TRUE, targets, FALSE)
     ELSE IF ~IsNull(signer) THEN AutoResult(st1, TRUE, TRUE, targets, TRUE)
     ELSE AutoResult(st1, TRUE, TRUE, targets, FALSE)

\* the steps after the guards: set the flag, analyse, choose targets, deploy
FireAutomation(st, roundData, signer) ==
  LET st1 == setAppState(st, [automationHasRunThisRound |-> TRUE])
      analysis == analyzeBoardState(roundData, st1.priceOreSol)
      targets == SelectTargets(st1.appMode, analysis)
  IN IF IsNull(analysis.bestEV) THEN AutoResult(st1, TRUE, TRUE, <<>>, FALSE)
     ELSE IF Len(targets) = 0 THEN AutoResult(st1, TRUE, TRUE, <<>>, FALSE)
     ELSE IF st1.isSpeculating THEN AutoResult(st1, TRUE, TRUE, targets, FALSE)
     ELSE IF ~IsNull(signer) THEN AutoResult(st1, TRUE, TRUE, targets, TRUE)
     ELSE AutoResult(st1, TRUE, TRUE, targets, FALSE)

\* variant: the window leaves out its upper end, AUTOMATION_TRIGGER_SECONDS
runAutomationCheck_OpenWindow(st, roundData, secondsRemaining, signer) ==
  IF st.appMode = APP_MODES.IDLE THEN AutoResult(st, FALSE, FALSE, <<>>, FALSE)
  ELSE IF secondsRemaining >= AUTOMATION_TRIGGER_SECONDS \/ secondsRemaining <= 0
  THEN AutoResult(st, FALSE, FALSE, <<>>, FALSE)
  ELSE IF st.automationHasRunThisRound
  THEN AutoResult(st, FALSE, FALSE, <<>>, FALSE)
  ELSE FireAutomation(st, roundData, signer)

\* variant: the automationHasRunThisRound guard is missing
runAutomationCheck_NoFlagGuard(st, roundData, secondsRemaining, signer) ==
  IF st.appMode = APP_MODES.IDLE THEN AutoResult(st, FALSE, FALSE, <<>>, FALSE)
  ELSE IF secondsRemaining > AUTOMATION_TRIGGER_SECONDS \/ secondsRemaining <= 0
  THEN AutoResult(st, FALSE, FALSE, <<>>, FALSE)
  ELSE FireAutomation(st, roundData, signer)

\* variant: the flag is set before the idle guard is looked at
runAutomationCheck_FlagBeforeIdle(st, roundData, secondsRemaining, signer) ==
  IF secondsRemaining > AUTOMATION_TRIGGER_SECONDS \/ secondsRemaining <= 0
  THEN AutoResult(st, FALSE, FALSE, <<>>, FALSE)
  ELSE IF st.automationHasRunThisRound
  THEN AutoResult(st, FALSE, FALSE, <<>>, FALSE)
  ELSE IF st.appMode = APP_MODES.IDLE
  THEN AutoResult(setAppState(st, [automationHasRunThisRound |-> TRUE]),
                  FALSE, FALSE, <<>>, FALSE)
  ELSE FireAutomation(st, roundData, signer)

runAutomationCheck(st, roundData, secondsRemaining, signer) ==
  IF st.appMode = APP_MODES.IDLE THEN AutoResult(st, FALSE, FALSE, <<>>, FALSE)
  ELSE IF secondsRemaining > AUTOMATION_TRIGGER_SECONDS \/ secondsRemaining <= 0
  THEN AutoResult(st, FALSE, FALSE, <<>>, FALSE)
  ELSE IF st.automationHasRunThisRound
  THEN AutoResult(st, FALSE, FALSE, <<>>, FALSE)
  ELSE FireAutomation(st, roundData, signer)

\* ------------------------------------------------------------- game.mjs
\* displayWinner: the state it leaves (lastWinner as a number, 0 for '--')
displayWinner(st, roundData) ==
  IF ~st.winnerAnnounced
  THEN setAppState(st, [lastWinner |->
                          getWinningSquare(calculateRng(roundData.slot_hash)) + 1,
                        winnerAnnounced |-> TRUE])
  ELSE st

\* processRoundUpdate with well-formed account data
processRoundUpdate(st, roundData) ==
  setAppState(st, [currentRoundData |-> Some(roundData)])

\* ================================================================ state
VARIABLES
  appState,        \* state.mjs appState
  signerKeypair,   \* wallet.mjs signerKeypair: Null or Some("keypair")
  process,         \* where main() stands, or how the process has ended
  ledger,          \* [round_id, slot]: the board's round and the slot clock
  rounds,          \* round accounts on the ledger, by round id
  boardTasks,      \* processBoardUpdate invocations suspended at an await
  tickTasks,       \* updateCountdown invocations suspended at an await
  deployTasks,     \* sendDeployTx invocations suspended at an await
  subs,            \* active round-account subscriptions: [id, round]
  nextSubId,       \* the connection's next client subscription id
  hist,            \* history: what has been done, by round
  ev,              \* what the last step did
  args,            \* harnesses: the inputs a function is evaluated on
  cashTasks        \* executeFullCashOut invocations suspended at an await

vars == <<appState, signerKeypair, process, ledger, rounds, boardTasks,
          tickTasks, deployTasks, subs, nextSubId, hist, ev, args, cashTasks>>

Rounds == 0..MaxRound

\* ------------------------------------------------------------- ledger
RoundSlots == 25                       \* slots in one round of the model
EndSlot(r) == (r + 1) * RoundSlots     \* the board's end_slot in round r

\* The slot clock is sampled where the countdown changes class: a round
\* starts with 10 s left, then 8 s (inside the trigger window), 0 s with
\* slots still left, and ended.
HASH_BYTES == 32
ZeroHash == [i \in 1..HASH_BYTES |-> 0]
\* the entropy round r gets once it has ended (winners differ by round)
SlotHashOf(r) ==
  [i \in 1..HASH_BYTES |->
     IF i = 1 THEN r + 1 ELSE IF i = 9 THEN 2 ELSE IF i = 25 THEN 4 ELSE 0]

\* per-square stakes: nobody in, two thin squares on a full board, an even
\* board, six thin squares of different sizes on a full board
EmptyBoard == [i \in 1..NUM_SQUARES |-> 0]
ThinBoard == [i \in 1..NUM_SQUARES |-> IF i = 7 THEN 1 ELSE IF i = 3 THEN 2 ELSE 40]
WideBoard == [i \in 1..NUM_SQUARES |-> IF i <= 6 THEN 7 - i ELSE 40]
Deployments ==
  {EmptyBoard, ThinBoard, [i \in 1..NUM_SQUARES |-> 40], WideBoard}

RECURSIVE SumSeq(_)
SumSeq(s) == IF s = <<>> THEN 0 ELSE Head(s) + SumSeq(Tail(s))

\* (one participant in every square that holds a stake)
RoundAccount(hash, deployed) ==
  [slot_hash |-> hash, deployed |-> deployed,
   count |-> [i \in 1..NUM_SQUARES |-> IF deployed[i] > 0 THEN 1 ELSE 0],
   total_deployed |-> SumSeq(deployed), motherlode |-> 0]

\* parseRound of round r's account
RoundData(r) == [id |-> r] @@ rounds[r]

\* parseBoard of the board account
BoardData == [round_id |-> ledger.round_id, end_slot |-> EndSlot(ledger.round_id)]

NoEvent ==
  [auto |-> Null, announce |-> Null, finalize |-> Null, reset |-> FALSE,
   submit |-> Null, reject |-> Null, boardError |-> Null, control |-> Null,
   tick |-> Null, cash |-> Null, decodeError |-> Null]

\* state.mjs appState as constructed
InitialAppState ==
  [appMode |-> APP_MODES.IDLE,
   isSpeculating |-> FALSE,
   customDeployAmount |-> 100000,      \* 0.0001 SOL, held in lamports
   userBalance |-> 0,
   priceOreSol |-> 0,
   currentRoundId |-> -1,
   currentBoardData |-> Null,
   currentRoundData |-> Null,
   isTransitioningRound |-> FALSE,
   checkpointHasRunThisRound |-> FALSE,
   automationHasRunThisRound |-> FALSE,
   winnerAnnounced |-> FALSE,
   lastWinner |-> 0,
   roundSubscriptionId |-> Null]

\* the ledger, the handlers and the history before anything has run
InitGame ==
  /\ ledger = [round_id |-> 0, slot |-> 0]
  /\ rounds = [r \in Rounds |-> RoundAccount(ZeroHash, ThinBoard)]
  /\ boardTasks = <<>>
  /\ tickTasks = <<>>
  /\ deployTasks = <<>>
  /\ subs = {}
  /\ nextSubId = 1
  /\ hist = [fired |-> [r \in Rounds |-> 0],
             deploys |-> [r \in Rounds |-> 0],
             submitted |-> [r \in Rounds |-> 0],
             announced |-> [r \in Rounds |-> 0],
             finalized |-> {},
             tracked |-> {}]
  /\ ev = NoEvent
  /\ cashTasks = <<>>
  /\ args = Null

\* everything but the application state and the wallet, with main() through
InitRest ==
  /\ process = "running"
  /\ InitGame

Init ==
  /\ appState = InitialAppState
  /\ signerKeypair = Some("keypair")
  /\ InitRest

\* -------------------------------------------------- task bookkeeping
AddTask(bag, t) == bag (+) SetToBag({t})
RemoveTask(bag, t) == bag (-) SetToBag({t})
Tasks(bag) == BagToSet(bag)

InFlight == BagCardinality(boardTasks) + BagCardinality(tickTasks)

Inc(f, r) == [f EXCEPT ![r] = @ + 1]

\* ------------------------------------------------- ledger (environment)
AdvanceSlot ==
  /\ \E left \in {22, 2, 0} :
       /\ EndSlot(ledger.round_id) - left > ledger.slot
       /\ ledger' = [ledger EXCEPT !.slot = EndSlot(ledger.round_id) - left]
  /\ ev' = NoEvent
  /\ UNCHANGED <<appState, signerKeypair, process, rounds, boardTasks,
                 tickTasks, deployTasks, subs, nextSubId, hist, args,
                 cashTasks>>

\* the entropy of an ended round becomes known
LedgerPopulateHash ==
  /\ \E r \in 0..ledger.round_id :
       /\ ledger.slot >= EndSlot(r)
       /\ rounds[r].slot_hash = ZeroHash
       /\ rounds' = [rounds EXCEPT ![r] = RoundAccount(SlotHashOf(r), @.deployed)]
  /\ ev' = NoEvent
  /\ UNCHANGED <<appState, signerKeypair, process, ledger, boardTasks,
                 tickTasks, deployTasks, subs, nextSubId, hist, args,
                 cashTasks>>

\* the board moves to the next round once the current one has ended
LedgerReset(last) ==
  /\ ledger.round_id < last
  /\ ledger.slot >= EndSlot(ledger.round_id)
  /\ ledger' = [ledger EXCEPT !.round_id = @ + 1]
  /\ ev' = NoEvent
  /\ UNCHANGED <<appState, signerKeypair, process, rounds, boardTasks,
                 tickTasks, deployTasks, subs, nextSubId, hist, args,
                 cashTasks>>

\* ------------------------------------------------ user controls (tui.mjs)
\* the mode keys of setupKeyListeners
KeyMode(ch) ==
  CASE ch = "0" -> APP_MODES.IDLE
    [] ch = "1" -> APP_MODES.ONE_X_EV
    [] ch = "2" -> APP_MODES.THREE_X_EV
    [] ch = "3" -> APP_MODES.FIVE_X_EV
    [] ch = "4" -> APP_MODES.TWENTY_FIVE_X_EV

setAppMode(st, mode) ==
  IF mode \in AppModeValues THEN [st EXCEPT !.appMode = mode] ELSE st

\* the user presses one of the given mode keys
PressModeKey(keys) ==
  /\ \E ch \in keys : appState' = setAppMode(appState, KeyMode(ch))
  /\ ev' = NoEvent
  /\ UNCHANGED <<signerKeypair, process, ledger, rounds, boardTasks,
                 tickTasks, deployTasks, subs, nextSubId, hist, args,
                 cashTasks>>

\* state.mjs toggleSpeculate, bound to the 's' key
toggleSpeculate(st) == [st EXCEPT !.isSpeculating = ~@]

ToggleSpeculate ==
  /\ appState' = toggleSpeculate(appState)
  /\ ev' = NoEvent
  /\ UNCHANGED <<signerKeypair, process, ledger, rounds, boardTasks,
                 tickTasks, deployTasks, subs, nextSubId, hist, args,
                 cashTasks>>

\* ------------------------------------------- processBoardUpdate (game.mjs)
\* 5b up to the await of 5c: subscribe to the new round, then fetch its account
SubscribeNewRound(st, t, others) ==
  /\ subs' = subs \cup {[id |-> nextSubId, round |-> t.newRoundId]}
  /\ nextSubId' = nextSubId + 1
  /\ appState' = setAppState(st, [roundSubscriptionId |-> Some(nextSubId)])
  /\ boardTasks' = AddTask(others, [t EXCEPT !.pc = "fetch"])

\* step 5: resetRoundFlags, then the new round id with no detail yet
trackNewRound(st, newRoundId) ==
  setAppState(resetRoundFlags(st),
              [currentRoundId |-> newRoundId,
               currentRoundData |-> Null,
               winnerAnnounced |-> FALSE])

\* 5 and 5a: reset the flags, track the new round, start the unsubscribe.
\* A removeAccountChangeListener call that succeeds drops the callback when it
\* is made; one that throws leaves the subscription in place.
SetUpNewRound(st, t, others, h, e) ==
  LET st1 == trackNewRound(st, t.newRoundId)
  IN /\ hist' = [h EXCEPT !.tracked = @ \cup {t.newRoundId}]
     /\ ev' = [e EXCEPT !.reset = TRUE]
     /\ IF ~IsNull(t.roundSubscriptionId) /\ Val(t.roundSubscriptionId) # 0
        THEN /\ \E ok \in BOOLEAN :
                  subs' = IF ok
                          THEN {s \in subs : s.id # Val(t.roundSubscriptionId)}
                          ELSE subs
             /\ appState' = st1
             /\ boardTasks' = AddTask(others, [t EXCEPT !.pc = "unsub"])
             /\ UNCHANGED nextSubId
        ELSE SubscribeNewRound(st1, t, others)

\* processBoardUpdate from its entry to its first await
EnterBoardUpdate ==
  /\ InFlight < MaxTasks
  /\ LET st0 == setAppState(appState, [currentBoardData |-> Some(BoardData)])
         t == [pc |-> "finalize",
               newRoundId |-> BoardData.round_id,
               currentRoundId |-> st0.currentRoundId,
               roundSubscriptionId |-> st0.roundSubscriptionId]
     IN IF t.newRoundId > t.currentRoundId /\ t.currentRoundId > -1
        THEN /\ appState' = setAppState(st0, [isTransitioningRound |-> TRUE])
             /\ boardTasks' = AddTask(boardTasks, t)
             /\ ev' = NoEvent
             /\ UNCHANGED <<subs, nextSubId, hist, cashTasks>>
        ELSE IF t.newRoundId = t.currentRoundId
        THEN /\ appState' = st0
             /\ boardTasks' = AddTask(boardTasks, [t EXCEPT !.pc = "refresh"])
             /\ ev' = NoEvent
             /\ UNCHANGED <<subs, nextSubId, hist, cashTasks>>
        ELSE SetUpNewRound(st0, t, boardTasks, hist, NoEvent)

\* a board notification enters the handler
BoardNotify ==
  /\ EnterBoardUpdate
  /\ UNCHANGED <<signerKeypair, process, ledger, rounds, tickTasks,
                 deployTasks, args, cashTasks>>

\* variant: the catch block also drops the board snapshot
BoardNotifyMalformed_DropsSnapshot ==
  /\ appState' = setAppState(appState, [isTransitioningRound |-> FALSE,
                                        currentBoardData |-> Null])
  /\ ev' = [NoEvent EXCEPT !.decodeError = Some("processing board update")]
  /\ UNCHANGED <<signerKeypair, process, ledger, rounds, boardTasks,
                 tickTasks, deployTasks, subs, nextSubId, hist, args,
                 cashTasks>>

\* parseBoard throws on the notification's bytes: the catch block logs the
\* error and clears isTransitioningRound
BoardNotifyMalformed ==
  /\ appState' = setAppState(appState, [isTransitioningRound |-> FALSE])
  /\ ev' = [NoEvent EXCEPT !.decodeError = Some("processing board update")]
  /\ UNCHANGED <<signerKeypair, process, ledger, rounds, boardTasks,
                 tickTasks, deployTasks, subs, nextSubId, hist, args,
                 cashTasks>>

\* variant: isTransitioningRound is not cleared after finalizeOldRound
BoardFinalizeReply_FlagLeftSet ==
  /\ \E t \in Tasks(boardTasks), found \in BOOLEAN :
       /\ t.pc = "finalize"
       /\ LET old == RoundData(t.currentRoundId)
              populated == found /\ isSlotHashPopulated(old.slot_hash)
              st1 == IF found
                     THEN setAppState(appState, [currentRoundData |-> Some(old)])
                     ELSE appState
              st2 == IF populated THEN displayWinner(st1, old) ELSE st1
              announced == populated /\ ~st1.winnerAnnounced
              st3 == st2
              h == [hist EXCEPT
                      !.finalized = @ \cup {t.currentRoundId},
                      !.announced = IF announced THEN Inc(@, t.currentRoundId)
                                    ELSE @]
              e == [NoEvent EXCEPT
                      !.announce = IF announced
                                   THEN Some([round |-> t.currentRoundId,
                                              winner |-> st2.lastWinner,
                                              slot_hash |-> old.slot_hash,
                                              path |-> "finalize"])
                                   ELSE Null,
                      !.finalize = Some([round |-> t.currentRoundId,
                                         populated |-> populated,
                                         slot_hash |-> old.slot_hash])]
          IN SetUpNewRound(st3, t, RemoveTask(boardTasks, t), h, e)
  /\ UNCHANGED <<signerKeypair, process, ledger, rounds, tickTasks,
                 deployTasks, args, cashTasks>>

\* finalizeOldRound resumes with the old round's account (or without it),
\* then the handler runs on to its next await
BoardFinalizeReply ==
  /\ \E t \in Tasks(boardTasks), found \in BOOLEAN :
       /\ t.pc = "finalize"
       /\ LET old == RoundData(t.currentRoundId)
              populated == found /\ isSlotHashPopulated(old.slot_hash)
              st1 == IF found
                     THEN setAppState(appState, [currentRoundData |-> Some(old)])
                     ELSE appState
              st2 == IF populated THEN displayWinner(st1, old) ELSE st1
              announced == populated /\ ~st1.winnerAnnounced
              st3 == setAppState(st2, [isTransitioningRound |-> FALSE])
              h == [hist EXCEPT
                      !.finalized = @ \cup {t.currentRoundId},
                      !.announced = IF announced THEN Inc(@, t.currentRoundId)
                                    ELSE @]
              e == [NoEvent EXCEPT
                      !.announce = IF announced
                                   THEN Some([round |-> t.currentRoundId,
                                              winner |-> st2.lastWinner,
                                              slot_hash |-> old.slot_hash,
                                              path |-> "finalize"])
                                   ELSE Null,
                      !.finalize = Some([round |-> t.currentRoundId,
                                         populated |-> populated,
                                         slot_hash |-> old.slot_hash])]
          IN SetUpNewRound(st3, t, RemoveTask(boardTasks, t), h, e)
  /\ UNCHANGED <<signerKeypair, process, ledger, rounds, tickTasks,
                 deployTasks, args, cashTasks>>

\* the catch block of processBoardUpdate has run in the handler t
BoardErrorEvent(t) ==
  Some([newRoundId |-> t.newRoundId, currentRoundId |-> t.currentRoundId])

\* step 4: the same-round refresh resumes
BoardRefreshReply ==
  /\ \E t \in Tasks(boardTasks), res \in {"found", "missing", "error"} :
       /\ t.pc = "refresh"
       /\ boardTasks' = RemoveTask(boardTasks, t)
       /\ appState' =
            CASE res = "found" ->
                   processRoundUpdate(appState, RoundData(t.currentRoundId))
              [] res = "missing" -> appState
              [] res = "error" ->
                   setAppState(appState, [isTransitioningRound |-> FALSE])
       /\ ev' = IF res = "error"
                THEN [NoEvent EXCEPT !.boardError = BoardErrorEvent(t)]
                ELSE NoEvent
  /\ UNCHANGED <<signerKeypair, process, ledger, rounds, tickTasks,
                 deployTasks, subs, nextSubId, hist, args, cashTasks>>

\* 5a resumes (either way it is only logged), 5b subscribes
BoardUnsubReply ==
  /\ \E t \in Tasks(boardTasks) :
       /\ t.pc = "unsub"
       /\ SubscribeNewRound(appState, t, RemoveTask(boardTasks, t))
  /\ ev' = NoEvent
  /\ UNCHANGED <<signerKeypair, process, ledger, rounds, tickTasks,
                 deployTasks, hist, args, cashTasks>>

\* 5c resumes with the new round's account
BoardFetchReply ==
  /\ \E t \in Tasks(boardTasks), res \in {"found", "missing", "error"} :
       /\ t.pc = "fetch"
       /\ boardTasks' = RemoveTask(boardTasks, t)
       /\ appState' =
            CASE res = "found" ->
                   processRoundUpdate(appState, RoundData(t.newRoundId))
              [] res = "missing" -> appState
              [] res = "error" ->
                   setAppState(appState, [isTransitioningRound |-> FALSE])
       /\ ev' = IF res = "error"
                THEN [NoEvent EXCEPT !.boardError = BoardErrorEvent(t)]
                ELSE NoEvent
  /\ UNCHANGED <<signerKeypair, process, ledger, rounds, tickTasks,
                 deployTasks, subs, nextSubId, hist, args, cashTasks>>

\* a round-account notification on an active subscription
RoundNotify ==
  /\ \E s \in subs :
       appState' = processRoundUpdate(appState, RoundData(s.round))
  /\ ev' = NoEvent
  /\ UNCHANGED <<signerKeypair, process, ledger, rounds, boardTasks,
                 tickTasks, deployTasks, subs, nextSubId, hist, args,
                 cashTasks>>

\* a round-account notification whose bytes parseRound throws on: the catch
\* block of processRoundUpdate logs the error
RoundNotifyMalformed ==
  /\ subs # {}
  /\ ev' = [NoEvent EXCEPT !.decodeError = Some("parsing Round update")]
  /\ UNCHANGED <<appState, signerKeypair, process, ledger, rounds, boardTasks,
                 tickTasks, deployTasks, subs, nextSubId, hist, args,
                 cashTasks>>

\* --------------------------------------------- updateCountdown (game.mjs)
\* setInterval fires: the tick reads the state and awaits conn.getSlot()
TickStart ==
  /\ InFlight < MaxTasks
  /\ tickTasks' =
       IF IsNull(appState.currentBoardData) THEN tickTasks
       ELSE AddTask(tickTasks,
                    [pc |-> "getSlot",
                     currentBoardData |-> Val(appState.currentBoardData),
                     currentRoundData |-> appState.currentRoundData,
                     currentRoundId |-> appState.currentRoundId,
                     isTransitioningRound |-> appState.isTransitioningRound])
  /\ ev' = NoEvent
  /\ UNCHANGED <<appState, signerKeypair, process, ledger, rounds, boardTasks,
                 deployTasks, subs, nextSubId, hist, args, cashTasks>>

\* one call of runAutomationCheck: its arguments, the state it was made in,
\* and what came of it
AutoEvent(st, roundData, secondsRemaining, r) ==
  Some([dataId |-> IF IsNull(roundData) THEN -1 ELSE Val(roundData).id,
        trackedId |-> st.currentRoundId,
        before |-> st,
        secondsRemaining |-> secondsRemaining,
        fired |-> r.fired, analysed |-> r.analysed, deploy |-> r.deploy,
        targets |-> [i \in 1..Len(r.targets) |-> r.targets[i].id]])

\* a tick has read the slot: the slots left on its board snapshot and the
\* branch it took (step 3, the active round, or step 4, the ended round)
TickEvent(t, active) ==
  Some([slotsRemaining |-> t.currentBoardData.end_slot - ledger.slot,
        active |-> active])

\* conn.getSlot() throws: the tick only shows the error
TickSlotError ==
  /\ \E t \in Tasks(tickTasks) :
       /\ t.pc = "getSlot"
       /\ tickTasks' = RemoveTask(tickTasks, t)
  /\ ev' = NoEvent
  /\ UNCHANGED <<appState, signerKeypair, process, ledger, rounds, boardTasks,
                 deployTasks, subs, nextSubId, hist, args, cashTasks>>

\* conn.getSlot() answers while slots remain on the tick's board snapshot
TickActive ==
  /\ \E t \in Tasks(tickTasks) :
       /\ t.pc = "getSlot"
       /\ t.currentBoardData.end_slot - ledger.slot > 0
       /\ tickTasks' = RemoveTask(tickTasks, t)
       /\ LET secondsRemaining ==
                ((t.currentBoardData.end_slot - ledger.slot) * MS_PER_SLOT)
                  \div 1000
              st1 == setAppState(appState, [winnerAnnounced |-> FALSE])
          IN IF ~IsNull(t.currentRoundData) /\ ~t.isTransitioningRound
             THEN LET r == runAutomationCheck(st1, t.currentRoundData,
                                              secondsRemaining, signerKeypair)
                      k == appState.currentRoundId
                  IN /\ appState' = r.state
                     /\ hist' = [hist EXCEPT
                                   !.fired = IF r.fired THEN Inc(@, k) ELSE @,
                                   !.deploys = IF r.deploy THEN Inc(@, k) ELSE @]
                     /\ ev' = [NoEvent EXCEPT
                                 !.auto = AutoEvent(st1, t.currentRoundData,
                                                    secondsRemaining, r),
                                 !.tick = TickEvent(t, TRUE)]
             ELSE /\ appState' = st1
                  /\ ev' = [NoEvent EXCEPT !.tick = TickEvent(t, TRUE)]
                  /\ UNCHANGED hist
  /\ UNCHANGED <<signerKeypair, process, ledger, rounds, boardTasks,
                 deployTasks, subs, nextSubId, args, cashTasks>>

\* conn.getSlot() answers after the end slot of the tick's board snapshot
TickEnded ==
  /\ \E t \in Tasks(tickTasks) :
       /\ t.pc = "getSlot"
       /\ t.currentBoardData.end_slot - ledger.slot <= 0
       /\ IF ~IsNull(t.currentRoundData)
             /\ isSlotHashPopulated(Val(t.currentRoundData).slot_hash)
          THEN /\ appState' = displayWinner(appState, Val(t.currentRoundData))
               /\ tickTasks' = RemoveTask(tickTasks, t)
               /\ IF ~appState.winnerAnnounced
                  THEN /\ hist' = [hist EXCEPT
                                     !.announced = Inc(@, t.currentRoundId)]
                       /\ ev' = [NoEvent EXCEPT !.announce =
                                   Some([round |-> t.currentRoundId,
                                         winner |-> appState'.lastWinner,
                                         slot_hash |->
                                           Val(t.currentRoundData).slot_hash,
                                         path |-> "tick"]),
                                   !.tick = TickEvent(t, FALSE)]
                  ELSE /\ ev' = [NoEvent EXCEPT !.tick = TickEvent(t, FALSE)]
                       /\ UNCHANGED hist
          ELSE /\ tickTasks' =
                    IF t.currentRoundId > -1
                    THEN AddTask(RemoveTask(tickTasks, t),
                                 [t EXCEPT !.pc = "getAccountInfo"])
                    ELSE RemoveTask(tickTasks, t)
               /\ ev' = [NoEvent EXCEPT !.tick = TickEvent(t, FALSE)]
               /\ UNCHANGED <<appState, hist, cashTasks>>
  /\ UNCHANGED <<signerKeypair, process, ledger, rounds, boardTasks,
                 deployTasks, subs, nextSubId, args, cashTasks>>

\* 4b resumes: the re-fetched account of the round the tick had read
TickRefetchReply ==
  /\ \E t \in Tasks(tickTasks), found \in BOOLEAN :
       /\ t.pc = "getAccountInfo"
       /\ tickTasks' = RemoveTask(tickTasks, t)
       /\ LET fresh == RoundData(t.currentRoundId)
              st1 == setAppState(appState, [currentRoundData |-> Some(fresh)])
          IN IF ~found
             THEN /\ ev' = NoEvent
                  /\ UNCHANGED <<appState, hist, cashTasks>>
             ELSE IF isSlotHashPopulated(fresh.slot_hash)
             THEN /\ appState' = displayWinner(st1, fresh)
                  /\ IF ~st1.winnerAnnounced
                     THEN /\ hist' = [hist EXCEPT
                                        !.announced = Inc(@, t.currentRoundId)]
                          /\ ev' = [NoEvent EXCEPT !.announce =
                                      Some([round |-> t.currentRoundId,
                                            winner |-> appState'.lastWinner,
                                            slot_hash |-> fresh.slot_hash,
                                            path |-> "re-fetch"])]
                     ELSE /\ ev' = NoEvent
                          /\ UNCHANGED hist
             ELSE /\ appState' = st1
                  /\ ev' = NoEvent
                  /\ UNCHANGED hist
  /\ UNCHANGED <<signerKeypair, process, ledger, rounds, boardTasks,
                 deployTasks, subs, nextSubId, args, cashTasks>>

\* ---------------------------------------------------------- specification
Next ==
  \/ AdvanceSlot
  \/ LedgerPopulateHash
  \/ LedgerReset(MaxRound - 1)
  \/ PressModeKey({"0", "1"})
  \/ BoardNotify
  \/ BoardFinalizeReply
  \/ BoardRefreshReply
  \/ BoardUnsubReply
  \/ BoardFetchReply
  \/ RoundNotify
  \/ TickStart
  \/ TickSlotError
  \/ TickActive
  \/ TickEnded
  \/ TickRefetchReply

Spec == Init /\ [][Next]_vars

\* ------------------------------------------ the trigger on its own inputs
\* runAutomationCheck applied to every mode, dry-run setting, wallet, flag
\* value, round detail and countdown value.
TriggerRoundData(r) ==
  {[id |-> r] @@ RoundAccount(ZeroHash, d) : d \in Deployments}

InitTrigger ==
  /\ \E mode \in AppModeValues, speculating \in BOOLEAN,
        roundData \in TriggerRoundData(0) :
       appState = [InitialAppState EXCEPT
                     !.appMode = mode,
                     !.isSpeculating = speculating,
                     !.currentRoundId = 0,
                     !.currentRoundData = Some(roundData)]
  /\ signerKeypair \in {Null, Some("keypair")}
  /\ InitRest

\* one call of runAutomationCheck, made as updateCountdown makes it, with
\* countdown values on both sides of each end of the window (0, 8]
TriggerCall ==
  /\ \E secondsRemaining \in {0, 1, AUTOMATION_TRIGGER_SECONDS,
                             AUTOMATION_TRIGGER_SECONDS + 1} :
       LET r == runAutomationCheck(appState, appState.currentRoundData,
                                   secondsRemaining, signerKeypair)
           k == appState.currentRoundId
       IN /\ appState' = r.state
          /\ hist' = [hist EXCEPT
                        !.fired = IF r.fired THEN Inc(@, k) ELSE @,
                        !.deploys = IF r.deploy THEN Inc(@, k) ELSE @]
          /\ ev' = [NoEvent EXCEPT
                      !.auto = AutoEvent(appState, appState.currentRoundData,
                                         secondsRemaining, r)]
  /\ UNCHANGED <<signerKeypair, process, ledger, rounds, boardTasks,
                 tickTasks, deployTasks, subs, nextSubId, args,
                 cashTasks>>

\* the next round starts: steps 5 and 5c of processBoardUpdate on the state
TriggerNewRound ==
  /\ appState.currentRoundId < MaxRound
  /\ \E roundData \in TriggerRoundData(appState.currentRoundId + 1) :
       appState' = processRoundUpdate(
                     trackNewRound(appState, appState.currentRoundId + 1),
                     roundData)
  /\ ev' = [NoEvent EXCEPT !.reset = TRUE]
  /\ UNCHANGED <<signerKeypair, process, ledger, rounds, boardTasks,
                 tickTasks, deployTasks, subs, nextSubId, hist, args,
                 cashTasks>>

NextTrigger ==
  \/ TriggerCall
  \/ TriggerNewRound
  \/ PressModeKey({"0", "1", "2", "3", "4"})
  \/ ToggleSpeculate

SpecTrigger == InitTrigger /\ [][NextTrigger]_vars

\* Three consecutive rounds.  Board handlers overlap one another freely; a
\* tick runs only while no board handler is suspended, and the other way round.
BoardNotifyBetweenTicks ==
  /\ tickTasks = EmptyBag
  /\ BoardNotify

TickStartBetweenBoards ==
  /\ boardTasks = EmptyBag
  /\ TickStart

NextOverlap ==
  \/ AdvanceSlot
  \/ LedgerReset(MaxRound)
  \/ PressModeKey({"1"})
  \/ BoardNotifyBetweenTicks
  \/ BoardFinalizeReply
  \/ BoardRefreshReply
  \/ BoardUnsubReply
  \/ BoardFetchReply
  \/ TickStartBetweenBoards
  \/ TickActive
  \/ TickEnded
  \/ TickRefetchReply

SpecOverlap == Init /\ [][NextOverlap]_vars

\* ------------------------------------------------------ transactions.mjs
\* sendDeployTx is called by runAutomationCheck without await: it runs on by
\* itself, writes userBalance only, and its steps are the actions below.
ORE_PROGRAM_ID == "ORE"
COMPUTE_BUDGET_PROGRAM_ID == "ComputeBudget"

\* one TransactionInstruction: the program, the first data byte, the round
\* whose account is among the keys (-1: none), the amount and the squares mask
Instruction(programId, opcode, round, amount, squaresMask) ==
  [programId |-> programId, opcode |-> opcode, round |-> round,
   amount |-> amount, squaresMask |-> squaresMask]

RECURSIVE Pow2(_)
Pow2(n) == IF n = 0 THEN 1 ELSE 2 * Pow2(n - 1)

RECURSIVE MaskOfIndexes(_)
MaskOfIndexes(S) ==
  IF S = {} THEN 0
  ELSE LET i == CHOOSE x \in S : TRUE
       IN Pow2(i) + MaskOfIndexes(S \ {i})

\* variant: the upper limit of the index test is off by one
createSquaresMask_NoRangeCheck(targets) ==
  MaskOfIndexes({targets[i] - 1 : i \in 1..Len(targets)} \cap 0..25)

\* mask |= (1 << squareIndex) over the targets with 0 <= squareIndex < 25
createSquaresMask(targets) ==
  MaskOfIndexes({targets[i] - 1 : i \in 1..Len(targets)} \cap 0..24)

\* Buffer.writeUIntLE and writeBigUInt64LE: value in byteLength bytes, the
\* least significant first
RECURSIVE writeUIntLE(_, _)
writeUIntLE(value, byteLength) ==
  IF byteLength = 0 THEN <<>>
  ELSE <<value % 256>> \o writeUIntLE(value \div 256, byteLength - 1)

\* the data of the deploy instruction: Buffer.alloc(1 + 8 + 4) with the
\* opcode at 0, the amount at 1 and the squares mask at 9
deployData(amountLamports, targets) ==
  <<6>> \o writeUIntLE(amountLamports, 8)
        \o writeUIntLE(createSquaresMask(targets), 4)

\* variant: the checkpoint is added whenever the miner state is dirty, also
\* for a miner that is already at the current round
BuildDeployTransaction_DirtyOnly(currentRoundId, customDeployAmount, minerRoundId, minerCheckpointId, targets) ==
  <<Instruction(COMPUTE_BUDGET_PROGRAM_ID, 2, -1, 0, 0),
    Instruction(COMPUTE_BUDGET_PROGRAM_ID, 3, -1, 0, 0)>>
  \o (IF minerRoundId # minerCheckpointId
      THEN <<Instruction(ORE_PROGRAM_ID, 2, minerRoundId, 0, 0)>>
      ELSE <<>>)
  \o <<Instruction(ORE_PROGRAM_ID, 6, currentRoundId, customDeployAmount,
                   createSquaresMask(targets))>>

\* variant: the round is read again from the state after the awaits
BuildDeployTransaction_TrackedNow(currentRoundId, customDeployAmount, minerRoundId, minerCheckpointId, targets) ==
  LET isStateDirty == minerRoundId # minerCheckpointId
      canCheckpoint == minerRoundId < appState.currentRoundId
  IN <<Instruction(COMPUTE_BUDGET_PROGRAM_ID, 2, -1, 0, 0),
       Instruction(COMPUTE_BUDGET_PROGRAM_ID, 3, -1, 0, 0)>>
     \o (IF isStateDirty /\ canCheckpoint
         THEN <<Instruction(ORE_PROGRAM_ID, 2, minerRoundId, 0, 0)>>
         ELSE <<>>)
     \o <<Instruction(ORE_PROGRAM_ID, 6, appState.currentRoundId,
                      customDeployAmount, createSquaresMask(targets))>>

\* steps 4 to 6 of sendDeployTx: the two compute budget instructions, the
\* checkpoint instruction when the miner is behind, the deploy instruction
BuildDeployTransaction(currentRoundId, customDeployAmount, minerRoundId, minerCheckpointId, targets) ==
  LET isStateDirty == minerRoundId # minerCheckpointId
      canCheckpoint == minerRoundId < currentRoundId
  IN <<Instruction(COMPUTE_BUDGET_PROGRAM_ID, 2, -1, 0, 0),
       Instruction(COMPUTE_BUDGET_PROGRAM_ID, 3, -1, 0, 0)>>
     \o (IF isStateDirty /\ canCheckpoint
         THEN <<Instruction(ORE_PROGRAM_ID, 2, minerRoundId, 0, 0)>>
         ELSE <<>>)
     \o <<Instruction(ORE_PROGRAM_ID, 6, currentRoundId, customDeployAmount,
                      createSquaresMask(targets))>>

\* the call itself, up to its first await
sendDeployTx(tasks, st, targets, signer) ==
  IF IsNull(signer) THEN tasks
  ELSE IF Len(targets) = 0 THEN tasks
  ELSE AddTask(tasks, [pc |-> "getRoundAccount",
                       currentRoundId |-> st.currentRoundId,
                       customDeployAmount |-> st.customDeployAmount,
                       targets |-> [i \in 1..Len(targets) |-> targets[i].id],
                       transaction |-> <<>>])

\* one call of runAutomationCheck with the sendDeployTx it starts, inside the
\* window and before it
DeployTriggerCall ==
  /\ \E secondsRemaining \in {4, AUTOMATION_TRIGGER_SECONDS + 1} :
       LET r == runAutomationCheck(appState, appState.currentRoundData,
                                   secondsRemaining, signerKeypair)
           k == appState.currentRoundId
       IN /\ appState' = r.state
          /\ deployTasks' = IF r.deploy
                            THEN sendDeployTx(deployTasks, r.state, r.targets,
                                              signerKeypair)
                            ELSE deployTasks
          /\ hist' = [hist EXCEPT
                        !.fired = IF r.fired THEN Inc(@, k) ELSE @,
                        !.deploys = IF r.deploy THEN Inc(@, k) ELSE @]
          /\ ev' = [NoEvent EXCEPT
                      !.auto = AutoEvent(appState, appState.currentRoundData,
                                         secondsRemaining, r)]
  /\ UNCHANGED <<signerKeypair, process, ledger, rounds, boardTasks,
                 tickTasks, subs, nextSubId, args, cashTasks>>

\* what sendDeployTx leaves behind when it gives up.  Its catch block logs a
\* message with InvalidAccountData as too late and drops any other error
\* (handleFatalError is commented out); a round account that is missing or
\* not initialized is logged as 'deploy skipped ... Waiting for next tick.'
DeployRejected(t, message) ==
  Some([currentRoundId |-> t.currentRoundId, message |-> message,
        before |-> appState, fatal |-> FALSE])

\* getAccountInfo(newRoundPda) answers: found, missing, not initialized, or
\* the RPC call throws
DeployRoundReply ==
  /\ \E t \in Tasks(deployTasks),
        reply \in {"found", "missing", "malformed", "throws"} :
       /\ t.pc = "getRoundAccount"
       /\ deployTasks' =
            IF reply = "found"
            THEN AddTask(RemoveTask(deployTasks, t),
                         [t EXCEPT !.pc = "getMinerAccount"])
            ELSE RemoveTask(deployTasks, t)
       /\ ev' = CASE reply = "throws" ->
                       [NoEvent EXCEPT !.reject = DeployRejected(t, "rpc error")]
                  [] reply = "missing" ->
                       [NoEvent EXCEPT !.reject =
                          DeployRejected(t, "deploy skipped: account not found")]
                  [] reply = "malformed" ->
                       [NoEvent EXCEPT !.reject =
                          DeployRejected(t, "deploy skipped: not initialized")]
                  [] OTHER -> NoEvent
  /\ UNCHANGED <<appState, signerKeypair, process, ledger, rounds, boardTasks,
                 tickTasks, subs, nextSubId, hist, args, cashTasks>>

\* getAccountInfo(minerPda) answers with no miner account yet, or with its
\* round and the round it last checkpointed: the transaction is built and
\* handed to
\* sendAndConfirmTransaction
DeployMinerReply ==
  /\ \E t \in Tasks(deployTasks),
        minerAccountInfo \in
          {Null} \cup {Some([round_id |-> r, checkpoint_id |-> c]) :
                         r \in Rounds, c \in Rounds} :
       /\ t.pc = "getMinerAccount"
       /\ LET minerRoundId == IF IsNull(minerAccountInfo) THEN 0
                              ELSE Val(minerAccountInfo).round_id
              minerCheckpointId == IF IsNull(minerAccountInfo) THEN 0
                                   ELSE Val(minerAccountInfo).checkpoint_id
              transaction ==
                BuildDeployTransaction(t.currentRoundId, t.customDeployAmount,
                                       minerRoundId, minerCheckpointId,
                                       t.targets)
          IN /\ deployTasks' =
                  AddTask(RemoveTask(deployTasks, t),
                          [t EXCEPT !.pc = "sendAndConfirmTransaction",
                                    !.transaction = transaction])
             /\ hist' = [hist EXCEPT !.submitted = Inc(@, t.currentRoundId)]
             /\ ev' = [NoEvent EXCEPT !.submit =
                         Some([currentRoundId |-> t.currentRoundId,
                               minerRoundId |-> minerRoundId,
                               minerCheckpointId |-> minerCheckpointId,
                               targets |-> t.targets,
                               transaction |-> transaction])]
  /\ UNCHANGED <<appState, signerKeypair, process, ledger, rounds, boardTasks,
                 tickTasks, subs, nextSubId, args, cashTasks>>

\* getAccountInfo(minerPda) throws
DeployMinerError ==
  /\ \E t \in Tasks(deployTasks) :
       /\ t.pc = "getMinerAccount"
       /\ deployTasks' = RemoveTask(deployTasks, t)
       /\ ev' = [NoEvent EXCEPT !.reject = DeployRejected(t, "rpc error")]
  /\ UNCHANGED <<appState, signerKeypair, process, ledger, rounds, boardTasks,
                 tickTasks, subs, nextSubId, hist, args, cashTasks>>

\* sendAndConfirmTransaction resolves
DeploySendConfirmed ==
  /\ \E t \in Tasks(deployTasks) :
       /\ t.pc = "sendAndConfirmTransaction"
       /\ deployTasks' = AddTask(RemoveTask(deployTasks, t),
                                 [t EXCEPT !.pc = "getBalance"])
  /\ ev' = NoEvent
  /\ UNCHANGED <<appState, signerKeypair, process, ledger, rounds, boardTasks,
                 tickTasks, subs, nextSubId, hist, args, cashTasks>>

\* sendAndConfirmTransaction rejects: too late (InvalidAccountData) or any
\* other error
DeploySendRejected ==
  /\ \E t \in Tasks(deployTasks),
        message \in {"InvalidAccountData", "other error"} :
       /\ t.pc = "sendAndConfirmTransaction"
       /\ deployTasks' = RemoveTask(deployTasks, t)
       /\ ev' = [NoEvent EXCEPT !.reject = DeployRejected(t, message)]
  /\ UNCHANGED <<appState, signerKeypair, process, ledger, rounds, boardTasks,
                 tickTasks, subs, nextSubId, hist, args, cashTasks>>

\* getBalance answers: setAppState({ userBalance })
DeployBalanceReply ==
  /\ \E t \in Tasks(deployTasks), newBalance \in {1} :
       /\ t.pc = "getBalance"
       /\ deployTasks' = RemoveTask(deployTasks, t)
       /\ appState' = setAppState(appState, [userBalance |-> newBalance])
  /\ ev' = NoEvent
  /\ UNCHANGED <<signerKeypair, process, ledger, rounds, boardTasks,
                 tickTasks, subs, nextSubId, hist, args, cashTasks>>

\* a deploying mode with a loaded wallet, on a board with positive-EV squares
InitDeploy ==
  /\ \E mode \in {APP_MODES.ONE_X_EV, APP_MODES.THREE_X_EV},
        deployed \in {ThinBoard, WideBoard} :
       appState = [InitialAppState EXCEPT
                     !.appMode = mode,
                     !.currentRoundId = 0,
                     !.currentRoundData =
                        Some([id |-> 0] @@ RoundAccount(ZeroHash, deployed))]
  /\ signerKeypair = Some("keypair")
  /\ InitRest

NextDeploy ==
  \/ DeployTriggerCall
  \/ TriggerNewRound
  \/ DeployRoundReply
  \/ DeployMinerReply
  \/ DeployMinerError
  \/ DeploySendConfirmed
  \/ DeploySendRejected
  \/ DeployBalanceReply

SpecDeploy == InitDeploy /\ [][NextDeploy]_vars

\* ------------------------------------------------------ main (main.mjs)
\* main() initialises the TUI, awaits loadSigner, starts the timers and awaits
\* startGameLoop.  process is where main() stands: "loadSigner" (at its
\* start), "getBalance" (inside loadSigner), "getBoardAccount" (inside
\* startGameLoop), "running" (main has returned), "exiting" (the catch block's
\* five-second exit timer is armed), "stalled" (main's promise rejected and was
\* left unhandled), or one of the ways the process has ended.
FailureExits ==
  {"exit 1: malformed id.json", "exit 1: unhandled rejection",
   "exit 1: fatal error"}

Exits == FailureExits \cup {"exit 1: new wallet created", "exit 0: quit"}

\* the timers and the board subscription are set up
LoopsStarted == process \in {"getBoardAccount", "running", "exiting"}

\* loadSigner up to its await: id.json is missing (handleNewWallet writes a
\* new one and exits), cannot be parsed, or holds a keypair
MainLoadSigner ==
  /\ process = "loadSigner"
  /\ \E file \in {"missing", "malformed", "valid"} :
       CASE file = "missing" ->
              /\ process' = "exit 1: new wallet created"
              /\ UNCHANGED signerKeypair
         [] file = "malformed" ->
              /\ process' = "exit 1: malformed id.json"
              /\ UNCHANGED signerKeypair
         [] file = "valid" ->
              /\ process' = "getBalance"
              /\ signerKeypair' = Some("keypair")
  /\ ev' = NoEvent
  /\ UNCHANGED <<appState, ledger, rounds, boardTasks, tickTasks,
                 deployTasks, subs, nextSubId, hist, args, cashTasks>>

\* loadSigner's getBalance answers: the balance is stored, the timers are
\* started, the board is subscribed to and its account is asked for
MainBalanceReply ==
  /\ process = "getBalance"
  /\ \E balanceSol \in {1} :
       appState' = setAppState(appState, [userBalance |-> balanceSol])
  /\ process' = "getBoardAccount"
  /\ ev' = NoEvent
  /\ UNCHANGED <<signerKeypair, ledger, rounds, boardTasks, tickTasks,
                 deployTasks, subs, nextSubId, hist, args, cashTasks>>

\* loadSigner's getBalance throws outside main's try block: main's promise
\* rejects with nobody handling it, which ends the process or, where the
\* runtime only warns, leaves it without its loops
MainBalanceError ==
  /\ process = "getBalance"
  /\ process' \in {"exit 1: unhandled rejection", "stalled"}
  /\ ev' = NoEvent
  /\ UNCHANGED <<appState, signerKeypair, ledger, rounds, boardTasks,
                 tickTasks, deployTasks, subs, nextSubId, hist, args,
                 cashTasks>>

\* startGameLoop's getAccountInfo(boardPda) answers with the board account:
\* processBoardUpdate(initialBoardInfo) is entered
MainBoardReply ==
  /\ process = "getBoardAccount"
  /\ process' = "running"
  /\ EnterBoardUpdate
  /\ UNCHANGED <<signerKeypair, ledger, rounds, tickTasks, deployTasks, args,
                 cashTasks>>

\* the board account is missing or the call throws: main's catch block logs
\* FATAL ERROR and arms the exit timer
MainBoardError ==
  /\ process = "getBoardAccount"
  /\ process' = "exiting"
  /\ ev' = NoEvent
  /\ UNCHANGED <<appState, signerKeypair, ledger, rounds, boardTasks,
                 tickTasks, deployTasks, subs, nextSubId, hist, args,
                 cashTasks>>

\* setTimeout(() => process.exit(1), 5000) fires
MainExitTimer ==
  /\ process = "exiting"
  /\ process' = "exit 1: fatal error"
  /\ ev' = NoEvent
  /\ UNCHANGED <<appState, signerKeypair, ledger, rounds, boardTasks,
                 tickTasks, deployTasks, subs, nextSubId, hist, args,
                 cashTasks>>

\* the user presses q or ctrl-c
PressQuit ==
  /\ process \notin Exits
  /\ process' = "exit 0: quit"
  /\ ev' = NoEvent
  /\ UNCHANGED <<appState, signerKeypair, ledger, rounds, boardTasks,
                 tickTasks, deployTasks, subs, nextSubId, hist, args,
                 cashTasks>>

\* the ledger, the board handler and the tick while the process lives
LiveAdvanceSlot == process \notin Exits /\ AdvanceSlot
LiveBoardNotify == LoopsStarted /\ BoardNotify
LiveBoardRefreshReply == LoopsStarted /\ BoardRefreshReply
LiveBoardFetchReply == LoopsStarted /\ BoardFetchReply
LiveTickStart == LoopsStarted /\ TickStart
LiveTickSlotError == LoopsStarted /\ TickSlotError
LiveTickActive == LoopsStarted /\ TickActive
LiveTickEnded == LoopsStarted /\ TickEnded
LiveTickRefetchReply == LoopsStarted /\ TickRefetchReply

InitMain ==
  /\ appState = InitialAppState
  /\ signerKeypair = Null
  /\ process = "loadSigner"
  /\ InitGame

NextMain ==
  \/ MainLoadSigner
  \/ MainBalanceReply
  \/ MainBalanceError
  \/ MainBoardReply
  \/ MainBoardError
  \/ MainExitTimer
  \/ PressQuit
  \/ LiveAdvanceSlot
  \/ LiveBoardNotify
  \/ LiveBoardRefreshReply
  \/ LiveBoardFetchReply
  \/ LiveTickStart
  \/ LiveTickSlotError
  \/ LiveTickActive
  \/ LiveTickEnded
  \/ LiveTickRefetchReply

SpecMain == InitMain /\ [][NextMain]_vars

\* ------------------------------------------------- round entropy harness
\* Round 0 has ended while the program tracks it; its account carries one of
\* the entropy blocks below (bytes in the low and the high half of a word, in
\* every word, and the all-zero block).  The winner is then announced by
\* whichever of the tick, the tick's re-fetch and the finalization comes
\* first; a board update and a tick start only while the other handler is
\* not suspended.
EntropyBlocks ==
  {[i \in 1..HASH_BYTES |->
      IF i = 1 THEN a ELSE IF i = 8 THEN b ELSE IF i = 10 THEN c
      ELSE IF i = 20 THEN d ELSE IF i = 32 THEN e ELSE 0] :
     a \in {0, 7}, b \in {0, 255}, c \in {0, 1}, d \in {0, 128}, e \in {0, 201}}

InitEntropy ==
  /\ \E block \in EntropyBlocks :
       rounds = [r \in Rounds |->
                   RoundAccount(IF r = 0 THEN block ELSE ZeroHash, ThinBoard)]
  /\ ledger = [round_id |-> 0, slot |-> EndSlot(0)]
  /\ appState =
       [InitialAppState EXCEPT
          !.currentRoundId = 0,
          !.currentBoardData = Some([round_id |-> 0, end_slot |-> EndSlot(0)]),
          !.currentRoundData =
             Some([id |-> 0] @@ RoundAccount(ZeroHash, ThinBoard)),
          !.roundSubscriptionId = Some(1)]
  /\ signerKeypair = Some("keypair")
  /\ process = "running"
  /\ boardTasks = <<>>
  /\ tickTasks = <<>>
  /\ deployTasks = <<>>
  /\ subs = {[id |-> 1, round |-> 0]}
  /\ nextSubId = 2
  /\ hist = [fired |-> [r \in Rounds |-> 0],
             deploys |-> [r \in Rounds |-> 0],
             submitted |-> [r \in Rounds |-> 0],
             announced |-> [r \in Rounds |-> 0],
             finalized |-> {},
             tracked |-> {0}]
  /\ ev = NoEvent
  /\ cashTasks = <<>>
  /\ args = Null

NextEntropy ==
  \/ LedgerReset(1)
  \/ RoundNotify
  \/ BoardNotifyBetweenTicks
  \/ BoardFinalizeReply
  \/ BoardRefreshReply
  \/ BoardUnsubReply
  \/ BoardFetchReply
  \/ TickStartBetweenBoards
  \/ TickActive
  \/ TickEnded
  \/ TickRefetchReply

SpecEntropy == InitEntropy /\ [][NextEntropy]_vars

\* ------------------------------------------------ expected-value harness
\* computeEVStarForBlock on stakes, totals and reward values around its
\* guards: negative, zero, small, large and the three non-finite doubles
InitEV ==
  /\ \E O \in {NegInfinity, -1, 0, 1, 2, 40, 100, PosInfinity, NaN},
        T \in {NegInfinity, -5, 0, 1, 50, 100, 1000, PosInfinity, NaN},
        oreValueInSOL \in {NegInfinity, -100, 0, 1, 10, 346, 500, PosInfinity,
                           NaN} :
       args = Some([fn |-> "computeEVStarForBlock", O |-> O, T |-> T,
                    oreValueInSOL |-> oreValueInSOL, out |-> Null])
  /\ appState = InitialAppState
  /\ signerKeypair = Null
  /\ process = "running"
  /\ ledger = [round_id |-> 0, slot |-> 0]
  /\ rounds = [r \in Rounds |-> RoundAccount(ZeroHash, EmptyBoard)]
  /\ boardTasks = <<>>
  /\ tickTasks = <<>>
  /\ deployTasks = <<>>
  /\ subs = {}
  /\ nextSubId = 1
  /\ hist = [fired |-> [r \in Rounds |-> 0],
             deploys |-> [r \in Rounds |-> 0],
             submitted |-> [r \in Rounds |-> 0],
             announced |-> [r \in Rounds |-> 0],
             finalized |-> {},
             tracked |-> {}]
  /\ ev = NoEvent
  /\ cashTasks = <<>>

\* one call of computeEVStarForBlock
EvaluateEVStar ==
  /\ ~IsNull(args)
  /\ Val(args).fn = "computeEVStarForBlock"
  /\ IsNull(Val(args).out)
  /\ args' = Some([Val(args) EXCEPT !.out =
                     Some(computeEVStarForBlock(Val(args).O, Val(args).T,
                                                Val(args).oreValueInSOL))])
  /\ UNCHANGED <<appState, signerKeypair, process, ledger, rounds, boardTasks,
                 tickTasks, deployTasks, subs, nextSubId, hist, ev,
                 cashTasks>>

SpecEV == InitEV /\ [][EvaluateEVStar]_vars

\* ------------------------------------------------------ analysis harness
\* analyzeBoardState on round details: a full board of squares with stake 40
\* and 4 participants, where squares 3, 7 and 12 take the stakes 0, 1, 2 and
\* 40 and squares 3 and 7 the counts 0, 1 and 2, at a reward price of zero
\* and above; and the missing detail.
ProbeDetail(s3, s7, s12, c3, c7) ==
  [RoundAccount(ZeroHash,
                [i \in 1..NUM_SQUARES |->
                   IF i = 3 THEN s3 ELSE IF i = 7 THEN s7
                   ELSE IF i = 12 THEN s12 ELSE 40])
   EXCEPT !.count = [i \in 1..NUM_SQUARES |->
                       IF i = 3 THEN c3 ELSE IF i = 7 THEN c7 ELSE 4]]

InitAnalysis ==
  /\ \E roundData \in
          {Null} \cup {Some([id |-> 0] @@ ProbeDetail(s3, s7, s12, c3, c7)) :
                         s3 \in {0, 1, 2, 40}, s7 \in {0, 1, 2, 40},
                         s12 \in {0, 1, 2, 40},
                         c3 \in {0, 1, 2}, c7 \in {0, 1, 2}},
        priceOreSol \in {0, 500} :
       /\ args = Some([fn |-> "analyzeBoardState", roundData |-> roundData,
                       out |-> Null])
       /\ appState = [InitialAppState EXCEPT !.priceOreSol = priceOreSol]
  /\ signerKeypair = Null
  /\ process = "running"
  /\ ledger = [round_id |-> 0, slot |-> 0]
  /\ rounds = [r \in Rounds |-> RoundAccount(ZeroHash, EmptyBoard)]
  /\ boardTasks = <<>>
  /\ tickTasks = <<>>
  /\ deployTasks = <<>>
  /\ subs = {}
  /\ nextSubId = 1
  /\ hist = [fired |-> [r \in Rounds |-> 0],
             deploys |-> [r \in Rounds |-> 0],
             submitted |-> [r \in Rounds |-> 0],
             announced |-> [r \in Rounds |-> 0],
             finalized |-> {},
             tracked |-> {}]
  /\ ev = NoEvent
  /\ cashTasks = <<>>

\* one call of analyzeBoardState
EvaluateAnalysis ==
  /\ ~IsNull(args)
  /\ Val(args).fn = "analyzeBoardState"
  /\ IsNull(Val(args).out)
  /\ args' = Some([Val(args) EXCEPT !.out =
                     Some(analyzeBoardState(Val(args).roundData,
                                            appState.priceOreSol)
                          @@ analyzeBoardRatios(Val(args).roundData))])
  /\ UNCHANGED <<appState, signerKeypair, process, ledger, rounds, boardTasks,
                 tickTasks, deployTasks, subs, nextSubId, hist, ev,
                 cashTasks>>

SpecAnalysis == InitAnalysis /\ [][EvaluateAnalysis]_vars

\* --------------------------------------------------------- price harness
\* fetchPrice returns the best pair's USD price, or 0 when the request fails
\* or no pair is listed
\* updatePrices after its two fetches: step 3 stores the ratio, which stays 0
\* unless both prices are above zero
updatePrices(st, oreUsd, solUsd) ==
  setAppState(st, [priceOreSol |-> IF oreUsd > 0 /\ solUsd > 0
                                   THEN oreUsd \div solUsd ELSE 0])

\* the price timer's fetches have answered
PricesReply ==
  /\ \E oreUsd \in {0, 500}, solUsd \in {0, 1} :
       appState' = updatePrices(appState, oreUsd, solUsd)
  /\ ev' = NoEvent
  /\ UNCHANGED <<signerKeypair, process, ledger, rounds, boardTasks,
                 tickTasks, deployTasks, subs, nextSubId, hist, args,
                 cashTasks>>

\* a round is tracked with its detail; no price has been fetched yet
InitPrice ==
  /\ \E mode \in {APP_MODES.ONE_X_EV, APP_MODES.THREE_X_EV},
        speculating \in BOOLEAN, roundData \in TriggerRoundData(0) :
       appState = [InitialAppState EXCEPT
                     !.appMode = mode,
                     !.isSpeculating = speculating,
                     !.currentRoundId = 0,
                     !.currentRoundData = Some(roundData)]
  /\ signerKeypair = Some("keypair")
  /\ InitRest

NextPrice ==
  \/ PricesReply
  \/ TriggerCall
  \/ TriggerNewRound

SpecPrice == InitPrice /\ [][NextPrice]_vars

\* ------------------------------------------------------ controls harness
\* A string is a sequence of one-character strings.
DigitValue ==
  [c \in {"0", "1", "2", "3", "4", "5", "6", "7", "8", "9"} |->
     CASE c = "0" -> 0 [] c = "1" -> 1 [] c = "2" -> 2 [] c = "3" -> 3
       [] c = "4" -> 4 [] c = "5" -> 5 [] c = "6" -> 6 [] c = "7" -> 7
       [] c = "8" -> 8 [] c = "9" -> 9]

RECURSIVE TrimStart(_)
TrimStart(str) ==
  IF str # <<>> /\ Head(str) = " " THEN TrimStart(Tail(str)) ELSE str

RECURSIVE LeadingDigits(_)
\* the longest prefix of digits
LeadingDigits(str) ==
  IF str # <<>> /\ Head(str) \in DOMAIN DigitValue
  THEN <<Head(str)>> \o LeadingDigits(Tail(str))
  ELSE <<>>

RECURSIVE IntegerPart(_)
\* the value of a digit string
IntegerPart(digits) ==
  IF digits = <<>> THEN 0
  ELSE 10 * IntegerPart(SubSeq(digits, 1, Len(digits) - 1))
       + DigitValue[digits[Len(digits)]]

LAMPORTS_PER_SOL == 1000000000

\* JavaScript parseFloat on strings without an exponent: leading blanks, a
\* sign, then Infinity or the longest decimal prefix; NaN when there is none.
\* The value is an amount of SOL, held in lamports: the first nine decimals
\* count.
parseFloat(str) ==
  LET s1 == TrimStart(str)
      signed == s1 # <<>> /\ Head(s1) \in {"+", "-"}
      negative == s1 # <<>> /\ Head(s1) = "-"
      s2 == IF signed THEN Tail(s1) ELSE s1
      whole == LeadingDigits(s2)
      rest == SubSeq(s2, Len(whole) + 1, Len(s2))
      fraction == IF rest # <<>> /\ Head(rest) = "."
                  THEN LeadingDigits(Tail(rest)) ELSE <<>>
      nine == SubSeq(fraction \o <<"0", "0", "0", "0", "0", "0", "0", "0", "0">>,
                     1, 9)
      magnitude == IntegerPart(whole) * LAMPORTS_PER_SOL + IntegerPart(nine)
      infinity == <<"I", "n", "f", "i", "n", "i", "t", "y">>
  IN IF Len(s2) >= Len(infinity) /\ SubSeq(s2, 1, Len(infinity)) = infinity
     THEN IF negative THEN NegInfinity ELSE PosInfinity
     ELSE IF whole = <<>> /\ fraction = <<>> THEN NaN
     ELSE IF negative THEN 0 - magnitude ELSE magnitude

\* state.mjs setCustomDeployAmount: the state it leaves and what it returns
setCustomDeployAmount(st, amountStr) ==
  LET amount == parseFloat(amountStr)
  IN IF amount # NaN /\ amount # NegInfinity /\ amount > 0
     THEN [state |-> [st EXCEPT !.customDeployAmount = amount], ok |-> TRUE]
     ELSE [state |-> st, ok |-> FALSE]

\* what the user can type into the deploy-amount box (amounts below 2.1 SOL
\* with at most nine decimals, so that the lamport value is exact)
DeployAmountInputs ==
  {<<"0", ".", "5">>, <<"1">>, <<"2">>, <<".", "5">>, <<" ", "2">>,
   <<"0", ".", "0", "0", "0", "1">>, <<"+", "1">>,
   <<"0">>, <<"0", ".", "0">>, <<"-", "1">>, <<"-", "0", ".", "5">>,
   <<>>, <<"a", "b", "c">>, <<".">>, <<"1", "a", "b", "c">>,
   <<"1", ".", "5", " ", "s", "o", "l">>,
   <<"I", "n", "f", "i", "n", "i", "t", "y">>,
   <<"-", "I", "n", "f", "i", "n", "i", "t", "y">>}

\* the deploy-amount form is submitted (showDeployAmountInput)
SubmitDeployAmount ==
  /\ \E amountStr \in DeployAmountInputs :
       LET r == setCustomDeployAmount(appState, amountStr)
       IN /\ appState' = r.state
          /\ ev' = [NoEvent EXCEPT !.control =
                      Some([fn |-> "setCustomDeployAmount", input |-> amountStr,
                            before |-> appState, ok |-> r.ok])]
  /\ UNCHANGED <<signerKeypair, process, ledger, rounds, boardTasks,
                 tickTasks, deployTasks, subs, nextSubId, hist, args,
                 cashTasks>>

\* one call of setAppMode, with one of the five modes or a value that is none;
\* it returns whether the mode is one of APP_MODES
CallSetAppMode ==
  /\ \E mode \in AppModeValues \cup {"10x EV", ""} :
       /\ appState' = setAppMode(appState, mode)
       /\ ev' = [NoEvent EXCEPT !.control =
                   Some([fn |-> "setAppMode", input |-> mode,
                         before |-> appState, ok |-> mode \in AppModeValues])]
  /\ UNCHANGED <<signerKeypair, process, ledger, rounds, boardTasks,
                 tickTasks, deployTasks, subs, nextSubId, hist, args,
                 cashTasks>>

InitControls ==
  /\ appState = InitialAppState
  /\ signerKeypair = Some("keypair")
  /\ InitRest

NextControls ==
  \/ SubmitDeployAmount
  \/ CallSetAppMode
  \/ ToggleSpeculate

SpecControls == InitControls /\ [][NextControls]_vars

\* ------------------------------------------------------ countdown harness
\* Round 0 is tracked with its board and its detail, in mode 1x EV (dry run)
\* or idle; the slot clock stands anywhere from the start of the round to
\* two slots past its end and moves slot by slot while the tick runs.
SlotTick ==
  /\ ledger.slot < EndSlot(0) + 2
  /\ ledger' = [ledger EXCEPT !.slot = @ + 1]
  /\ ev' = NoEvent
  /\ UNCHANGED <<appState, signerKeypair, process, rounds, boardTasks,
                 tickTasks, deployTasks, subs, nextSubId, hist, args,
                 cashTasks>>

InitCountdown ==
  /\ \E slot \in 0..(EndSlot(0) + 2), mode \in {APP_MODES.IDLE, APP_MODES.ONE_X_EV} :
       /\ ledger = [round_id |-> 0, slot |-> slot]
       /\ appState =
            [InitialAppState EXCEPT
               !.appMode = mode,
               !.isSpeculating = TRUE,
               !.currentRoundId = 0,
               !.currentBoardData =
                  Some([round_id |-> 0, end_slot |-> EndSlot(0)]),
               !.currentRoundData =
                  Some([id |-> 0] @@ RoundAccount(ZeroHash, ThinBoard)),
               !.roundSubscriptionId = Some(1)]
  /\ rounds = [r \in Rounds |-> RoundAccount(ZeroHash, ThinBoard)]
  /\ signerKeypair = Some("keypair")
  /\ process = "running"
  /\ boardTasks = <<>>
  /\ tickTasks = <<>>
  /\ deployTasks = <<>>
  /\ subs = {[id |-> 1, round |-> 0]}
  /\ nextSubId = 2
  /\ hist = [fired |-> [r \in Rounds |-> 0],
             deploys |-> [r \in Rounds |-> 0],
             submitted |-> [r \in Rounds |-> 0],
             announced |-> [r \in Rounds |-> 0],
             finalized |-> {},
             tracked |-> {0}]
  /\ ev = NoEvent
  /\ cashTasks = <<>>
  /\ args = Null

NextCountdown ==
  \/ SlotTick
  \/ LedgerPopulateHash
  \/ TickStart
  \/ TickSlotError
  \/ TickActive
  \/ TickEnded
  \/ TickRefetchReply

SpecCountdown == InitCountdown /\ [][NextCountdown]_vars

\* ------------------------------------------------ deploy payload harness
\* The deploy instruction's data for amounts in one, two and four bytes and
\* for up to three targets whose ids lie in and around 1..25, repeats
\* included.
InitPayload ==
  /\ \E amountLamports \in {0, 1, 255, 256, 100000, 1000000000, 2147483647},
        n \in 0..3 :
       \E targets \in [1..n -> {-1, 0, 1, 2, 9, 17, 25, 26, 33}] :
         args = Some([fn |-> "deployData", amountLamports |-> amountLamports,
                      targets |-> targets, out |-> Null])
  /\ appState = InitialAppState
  /\ signerKeypair = Null
  /\ process = "running"
  /\ ledger = [round_id |-> 0, slot |-> 0]
  /\ rounds = [r \in Rounds |-> RoundAccount(ZeroHash, EmptyBoard)]
  /\ boardTasks = <<>>
  /\ tickTasks = <<>>
  /\ deployTasks = <<>>
  /\ subs = {}
  /\ nextSubId = 1
  /\ hist = [fired |-> [r \in Rounds |-> 0],
             deploys |-> [r \in Rounds |-> 0],
             submitted |-> [r \in Rounds |-> 0],
             announced |-> [r \in Rounds |-> 0],
             finalized |-> {},
             tracked |-> {}]
  /\ ev = NoEvent
  /\ cashTasks = <<>>

\* one deploy instruction is built
EvaluatePayload ==
  /\ ~IsNull(args)
  /\ Val(args).fn = "deployData"
  /\ IsNull(Val(args).out)
  /\ args' = Some([Val(args) EXCEPT !.out =
                     Some(deployData(Val(args).amountLamports,
                                     Val(args).targets))])
  /\ UNCHANGED <<appState, signerKeypair, process, ledger, rounds, boardTasks,
                 tickTasks, deployTasks, subs, nextSubId, hist, ev,
                 cashTasks>>

SpecPayload == InitPayload /\ [][EvaluatePayload]_vars

\* ------------------------------------------------------ cash out
\* An error thrown by sendAndConfirmTransaction or getBalance: its message
\* and, on a SendTransactionError, the program logs.  Texts are sequences of
\* pieces cut where the searched strings begin and end.
SendErrors ==
  UNION {{[message |-> <<"Transaction simulation failed: ",
                         "custom program error", ": ", "0x", d>>,
           logs |-> l] :
             l \in {Null, Some(<<"Program failed: ", "custom program error",
                                 ": ", "0x", d>>)}} :
           d \in {"1", "10"}}
  \cup {[message |-> <<>>,
         logs |-> Some(<<"Program failed: ", "custom program error", ": ",
                         "0x", "1">>)],
        [message |-> <<"Transaction failed (InstructionError Custom 1)">>,
         logs |-> Null],
        [message |-> <<"failed to send transaction: Blockhash not found">>,
         logs |-> Null],
        [message |-> <<>>, logs |-> Null]}

\* String.prototype.includes on such texts; the last piece may go on after
\* the searched string ("0x10" includes "0x1")
includes(str, searchString) ==
  \E i \in 1..Len(str) :
    /\ i + Len(searchString) - 1 <= Len(str)
    /\ \A k \in 1..(Len(searchString) - 1) :
         str[i + k - 1] = searchString[k]
    /\ LET last == str[i + Len(searchString) - 1]
           want == searchString[Len(searchString)]
       IN last = want \/ (want = "1" /\ last = "10")

\* variant: every rejected claim is a failure
sendClaimSolTxCatch_AllFail(e) ==
  FALSE

\* the catch block of sendClaimSolTx: what the call returns
sendClaimSolTxCatch(e) ==
  LET errorMsg == IF e.message # <<>> THEN e.message
                  ELSE IF ~IsNull(e.logs) THEN Val(e.logs)
                  ELSE <<>>
  IN includes(errorMsg, <<"custom program error">>)

\* the catch block of sendCheckpointTx: what the call returns
sendCheckpointTxCatch(e) ==
  LET errorLogs == IF ~IsNull(e.logs) THEN Val(e.logs) ELSE e.message
  IN includes(errorLogs, <<"custom program error", ": ", "0x", "1">>)

FEE_BUFFER == 5000

\* variant: the fee buffer is not held back
amountToSend_NoFee(newBalance) ==
  newBalance

amountToSend(newBalance) ==
  newBalance - FEE_BUFFER

\* what a step of the cash out did: the function, the error it caught, what
\* it returned, the class of its log line, the transaction it submitted and
\* the invocation as it goes on (Null: it has ended)
CashEvent(fn, error, returned, logged, submitted, task) ==
  Some([fn |-> fn, error |-> error, returned |-> returned, logged |-> logged,
        submitted |-> submitted, task |-> task])

\* the submit handler of the cash out prompt: an address of valid length sets
\* the mode to idle and starts executeFullCashOut, which runs up to the
\* await inside sendClaimSolTx
SubmitCashOut ==
  /\ BagCardinality(cashTasks) < MaxTasks
  /\ \E address \in {"too short", "not base58", "destination"} :
       IF address = "too short"
       THEN /\ ev' = [NoEvent EXCEPT !.cash =
                        CashEvent("submit", Null, Null, "invalid address",
                                  "none", Null)]
            /\ UNCHANGED <<appState, cashTasks>>
       ELSE /\ appState' = setAppMode(appState, APP_MODES.IDLE)
            /\ IF IsNull(signerKeypair) \/ address = "not base58"
               THEN /\ ev' = [NoEvent EXCEPT !.cash =
                                CashEvent("executeFullCashOut", Null, Null,
                                          "FAILED", "none", Null)]
                    /\ UNCHANGED cashTasks
               ELSE LET t == [pc |-> "claim: sendAndConfirmTransaction",
                              claimError |-> Null,
                              claimSuccess |-> Null, newBalance |-> Null,
                              lamports |-> Null]
                    IN /\ cashTasks' = AddTask(cashTasks, t)
                       /\ ev' = [NoEvent EXCEPT !.cash =
                                   CashEvent("executeFullCashOut", Null, Null,
                                             "INITIATED", "claim", Some(t))]
  /\ UNCHANGED <<signerKeypair, process, ledger, rounds, boardTasks,
                 tickTasks, deployTasks, subs, nextSubId, hist, args>>

\* sendClaimSolTx: sendAndConfirmTransaction resolves, or rejects into the
\* catch block, whose result executeFullCashOut goes on with
ClaimSendReply ==
  /\ \E t \in Tasks(cashTasks), reply \in {Null} \cup {Some(e) : e \in SendErrors} :
       /\ t.pc = "claim: sendAndConfirmTransaction"
       /\ IF IsNull(reply)
          THEN LET u == [t EXCEPT !.pc = "claim: getBalance"]
               IN /\ cashTasks' = AddTask(RemoveTask(cashTasks, t), u)
                  /\ ev' = [NoEvent EXCEPT !.cash =
                              CashEvent("sendClaimSolTx", Null, Null,
                                        "successful", "none", Some(u))]
          ELSE IF sendClaimSolTxCatch(Val(reply))
          THEN LET u == [t EXCEPT !.pc = "getBalance",
                                  !.claimError = Some("custom program error"),
                                  !.claimSuccess = Some(TRUE)]
               IN /\ cashTasks' = AddTask(RemoveTask(cashTasks, t), u)
                  /\ ev' = [NoEvent EXCEPT !.cash =
                              CashEvent("sendClaimSolTx", reply, Some(TRUE),
                                        "no pending rewards", "none", Some(u))]
          ELSE /\ cashTasks' = RemoveTask(cashTasks, t)
               /\ ev' = [NoEvent EXCEPT !.cash =
                           CashEvent("sendClaimSolTx", reply, Some(FALSE),
                                     "FAILED", "none", Null)]
  /\ UNCHANGED <<appState, signerKeypair, process, ledger, rounds, boardTasks,
                 tickTasks, deployTasks, subs, nextSubId, hist, args>>

\* sendClaimSolTx: getBalance resolves (userBalance is set, true is returned)
\* or rejects into the same catch block
ClaimBalanceReply ==
  /\ \E t \in Tasks(cashTasks),
        reply \in {Some(7000), Null} :
       /\ t.pc = "claim: getBalance"
       /\ IF ~IsNull(reply)
          THEN LET u == [t EXCEPT !.pc = "getBalance",
                                  !.claimSuccess = Some(TRUE)]
               IN /\ appState' = setAppState(appState,
                                             [userBalance |-> Val(reply)])
                  /\ cashTasks' = AddTask(RemoveTask(cashTasks, t), u)
                  /\ ev' = [NoEvent EXCEPT !.cash =
                              CashEvent("sendClaimSolTx", Null, Some(TRUE),
                                        "successful", "none", Some(u))]
          ELSE LET e == [message |-> <<"failed to get balance">>,
                         logs |-> Null]
               IN /\ appState' = appState
                  /\ cashTasks' = RemoveTask(cashTasks, t)
                  /\ ev' = [NoEvent EXCEPT !.cash =
                              CashEvent("sendClaimSolTx", Some(e),
                                        Some(sendClaimSolTxCatch(e)),
                                        "FAILED", "none", Null)]
  /\ UNCHANGED <<signerKeypair, process, ledger, rounds, boardTasks,
                 tickTasks, deployTasks, subs, nextSubId, hist, args>>

\* executeFullCashOut steps 2 and 3, after the two seconds' wait: getBalance
\* resolves or rejects; the transfer is built and handed to
\* sendAndConfirmTransaction when something is left above the fee buffer
CashOutBalanceReply ==
  /\ \E t \in Tasks(cashTasks),
        reply \in {Some(b) : b \in {0, FEE_BUFFER, FEE_BUFFER + 1, 7000}}
                  \cup {Null} :
       /\ t.pc = "getBalance"
       /\ IF IsNull(reply)
          THEN /\ appState' = appState
               /\ cashTasks' = RemoveTask(cashTasks, t)
               /\ ev' = [NoEvent EXCEPT !.cash =
                           CashEvent("executeFullCashOut", Null, Null,
                                     "FAILED", "none", Null)]
          ELSE /\ appState' = setAppState(appState,
                                          [userBalance |-> Val(reply)])
               /\ IF amountToSend(Val(reply)) <= 0
                  THEN /\ cashTasks' = RemoveTask(cashTasks, t)
                       /\ ev' = [NoEvent EXCEPT !.cash =
                                   CashEvent("executeFullCashOut", Null, Null,
                                             "wallet is empty", "none",
                                             Some([t EXCEPT !.pc = "done",
                                                     !.newBalance = reply]))]
                  ELSE LET u == [t EXCEPT
                                   !.pc = "transfer: sendAndConfirmTransaction",
                                   !.newBalance = reply,
                                   !.lamports = Some(amountToSend(Val(reply)))]
                       IN /\ cashTasks' = AddTask(RemoveTask(cashTasks, t), u)
                          /\ ev' = [NoEvent EXCEPT !.cash =
                                      CashEvent("executeFullCashOut", Null,
                                                Null, "cashing out",
                                                "transfer", Some(u))]
  /\ UNCHANGED <<signerKeypair, process, ledger, rounds, boardTasks,
                 tickTasks, deployTasks, subs, nextSubId, hist, args>>

\* the transfer's sendAndConfirmTransaction resolves or rejects
TransferSendReply ==
  /\ \E t \in Tasks(cashTasks), reply \in {Null} \cup {Some(e) : e \in SendErrors} :
       /\ t.pc = "transfer: sendAndConfirmTransaction"
       /\ IF IsNull(reply)
          THEN LET u == [t EXCEPT !.pc = "final: getBalance"]
               IN /\ cashTasks' = AddTask(RemoveTask(cashTasks, t), u)
                  /\ ev' = [NoEvent EXCEPT !.cash =
                              CashEvent("executeFullCashOut", Null, Null,
                                        "SUCCESSFUL", "none", Some(u))]
          ELSE /\ cashTasks' = RemoveTask(cashTasks, t)
               /\ ev' = [NoEvent EXCEPT !.cash =
                           CashEvent("executeFullCashOut", reply, Null,
                                     "FAILED", "none", Null)]
  /\ UNCHANGED <<appState, signerKeypair, process, ledger, rounds, boardTasks,
                 tickTasks, deployTasks, subs, nextSubId, hist, args>>

\* the last getBalance resolves or rejects
FinalBalanceReply ==
  /\ \E t \in Tasks(cashTasks), reply \in {Some(0), Null} :
       /\ t.pc = "final: getBalance"
       /\ cashTasks' = RemoveTask(cashTasks, t)
       /\ appState' = IF IsNull(reply) THEN appState
                      ELSE setAppState(appState, [userBalance |-> Val(reply)])
       /\ ev' = [NoEvent EXCEPT !.cash =
                   CashEvent("executeFullCashOut", Null, Null,
                             IF IsNull(reply) THEN "FAILED" ELSE "done",
                             "none", Null)]
  /\ UNCHANGED <<signerKeypair, process, ledger, rounds, boardTasks,
                 tickTasks, deployTasks, subs, nextSubId, hist, args>>

\* one call of sendCheckpointTx with a loaded signer: its
\* sendAndConfirmTransaction resolves or rejects into the catch block, which
\* hands every other error to handleFatalError
CheckpointSendReply ==
  /\ ~IsNull(signerKeypair)
  /\ \E reply \in {Null} \cup {Some(e) : e \in SendErrors} :
       ev' = [NoEvent EXCEPT !.cash =
                IF IsNull(reply)
                THEN CashEvent("sendCheckpointTx", Null, Some(TRUE),
                               "successful", "checkpoint", Null)
                ELSE IF sendCheckpointTxCatch(Val(reply))
                THEN CashEvent("sendCheckpointTx", reply, Some(TRUE),
                               "already done or not needed", "checkpoint",
                               Null)
                ELSE CashEvent("sendCheckpointTx", reply, Some(FALSE),
                               "fatal error", "checkpoint", Null)]
  /\ UNCHANGED <<appState, signerKeypair, process, ledger, rounds, boardTasks,
                 tickTasks, deployTasks, subs, nextSubId, hist, args,
                 cashTasks>>

\* idle or a betting mode and a round detail with positive-EV squares, with
\* or without a loaded wallet
InitCashOut ==
  /\ \E mode \in {APP_MODES.IDLE, APP_MODES.ONE_X_EV, APP_MODES.THREE_X_EV} :
       appState = [InitialAppState EXCEPT
                     !.appMode = mode,
                     !.currentRoundId = 0,
                     !.currentRoundData =
                        Some([id |-> 0] @@ RoundAccount(ZeroHash, WideBoard))]
  /\ signerKeypair \in {Null, Some("keypair")}
  /\ InitRest

NextCashOut ==
  \/ SubmitCashOut
  \/ ClaimSendReply
  \/ ClaimBalanceReply
  \/ CashOutBalanceReply
  \/ TransferSendReply
  \/ FinalBalanceReply
  \/ CheckpointSendReply
  \/ TriggerCall
  \/ PressModeKey({"0", "1"})

SpecCashOut == InitCashOut /\ [][NextCashOut]_vars

\* ------------------------------------------------- decode error harness
\* The rounds of the game with notifications whose bytes do not decode among
\* the well-formed ones, on the board account and on the round accounts.
NextDecode ==
  \/ AdvanceSlot
  \/ LedgerReset(1)
  \/ BoardNotifyBetweenTicks
  \/ BoardNotifyMalformed
  \/ BoardFinalizeReply
  \/ BoardRefreshReply
  \/ BoardUnsubReply
  \/ BoardFetchReply
  \/ RoundNotify
  \/ RoundNotifyMalformed
  \/ TickStartBetweenBoards
  \/ TickActive
  \/ TickEnded
  \/ TickRefetchReply

SpecDecode == Init /\ [][NextDecode]_vars

\* ================================================================ claims

\* C1: the trigger passes its guards at most once per tracked round, and at
\* most one deployment request is issued per round.
C1_AtMostOneTriggerPerRound ==
  \A r \in Rounds : hist.fired[r] <= 1 /\ hist.deploys[r] <= 1

\* C2: the round flags are reset exactly when the tracked round id changes:
\* every change comes with one reset, and no reset happens while the tracked
\* round stays the same.
C2_ResetExactlyOncePerRound ==
  [][ev'.reset <=> appState'.currentRoundId # appState.currentRoundId]_vars

\* C3: whenever updateCountdown calls runAutomationCheck(roundData, ...),
\* roundData.id is the tracked currentRoundId.
C3_AutomationOnTrackedRound ==
  ~IsNull(ev.auto) => Val(ev.auto).dataId = Val(ev.auto).trackedId

\* C4: an automation check that fires on round N+1's detail, N having been
\* tracked, comes only after round N has been finalized.
C4_FinalizedBeforeNextAutomation ==
  \A n \in Rounds :
    (/\ ~IsNull(ev.auto)
     /\ Val(ev.auto).fired
     /\ Val(ev.auto).dataId = n + 1
     /\ n \in hist.tracked)
      => n \in hist.finalized

\* C5: for each round id, displayWinner emits the winner at most once.
C5_WinnerAnnouncedOncePerRound ==
  \A r \in Rounds : hist.announced[r] <= 1

\* C6: when the final detail fetched for round N has a populated entropy
\* block, lastWinner is N's winning slot once the transition has finalized N.
C6_OutcomeAnnouncedAtBoundary ==
  (~IsNull(ev.finalize) /\ Val(ev.finalize).populated)
    => appState.lastWinner =
         getWinningSquare(calculateRng(Val(ev.finalize).slot_hash)) + 1

\* C7: never two processBoardUpdate invocations in flight, and never two
\* updateCountdown invocations in flight.
C7_NoHandlerOverlapsItself ==
  BagCardinality(boardTasks) <= 1 /\ BagCardinality(tickTasks) <= 1

\* C8: a call outside the window (secondsRemaining > 8 or <= 0) changes
\* nothing and neither analyses nor deploys; a call in a non-idle mode with
\* the flag clear and 1 <= secondsRemaining <= 8 fires, sets the flag, and is
\* the round's only firing.
C8_TriggerWindow ==
  ~IsNull(ev.auto) =>
    LET a == Val(ev.auto) IN
    /\ (a.secondsRemaining > 8 \/ a.secondsRemaining <= 0)
         => /\ appState = a.before
            /\ ~a.fired /\ ~a.analysed /\ ~a.deploy
    /\ (/\ a.before.appMode # APP_MODES.IDLE
        /\ ~a.before.automationHasRunThisRound
        /\ 1 <= a.secondsRemaining /\ a.secondsRemaining <= 8)
         => /\ a.fired
            /\ appState.automationHasRunThisRound
            /\ hist.fired[a.trackedId] = 1

\* a call at exactly 8 seconds, non-idle and flag clear, has fired
C8_Witness ==
  /\ ~IsNull(ev.auto)
  /\ Val(ev.auto).secondsRemaining = 8
  /\ Val(ev.auto).before.appMode # APP_MODES.IDLE
  /\ ~Val(ev.auto).before.automationHasRunThisRound
  /\ Val(ev.auto).fired
  /\ appState.automationHasRunThisRound

\* C9: a call made with automationHasRunThisRound already true analyses
\* nothing, requests no deployment and leaves the state as it was.
C9_NoSecondFiring ==
  (~IsNull(ev.auto) /\ Val(ev.auto).before.automationHasRunThisRound)
    => /\ ~Val(ev.auto).analysed
       /\ ~Val(ev.auto).deploy
       /\ ~Val(ev.auto).fired
       /\ appState = Val(ev.auto).before

\* a call inside the window, in a deploying mode with a wallet and positive-EV
\* squares, with the flag already set
C9_Witness ==
  /\ ~IsNull(ev.auto)
  /\ Val(ev.auto).before.automationHasRunThisRound
  /\ Val(ev.auto).before.appMode = APP_MODES.ONE_X_EV
  /\ ~Val(ev.auto).before.isSpeculating
  /\ ~IsNull(signerKeypair)
  /\ Val(ev.auto).secondsRemaining = 1
  /\ Val(ev.auto).before.currentRoundId = Val(ev.auto).dataId
  /\ hist.fired[Val(ev.auto).trackedId] = 1

\* C10: a call in idle mode leaves the whole state unchanged and neither
\* analyses nor deploys; if the flag was clear, then from the state it leaves
\* a call in any non-idle mode inside the window still fires.
C10_IdleIsNoOp ==
  (~IsNull(ev.auto) /\ Val(ev.auto).before.appMode = APP_MODES.IDLE)
    => /\ appState = Val(ev.auto).before
       /\ ~Val(ev.auto).fired /\ ~Val(ev.auto).analysed /\ ~Val(ev.auto).deploy
       /\ ~Val(ev.auto).before.automationHasRunThisRound
            => \A ch \in {"1", "2", "3", "4"},
                  secondsRemaining \in {1, AUTOMATION_TRIGGER_SECONDS} :
                 runAutomationCheck(setAppMode(appState, KeyMode(ch)),
                                    appState.currentRoundData,
                                    secondsRemaining, signerKeypair).fired

\* an idle call inside the window with the flag clear
C10_Witness ==
  /\ ~IsNull(ev.auto)
  /\ Val(ev.auto).before.appMode = APP_MODES.IDLE
  /\ ~Val(ev.auto).before.automationHasRunThisRound
  /\ Val(ev.auto).secondsRemaining \in 1..AUTOMATION_TRIGGER_SECONDS
  /\ ~appState.automationHasRunThisRound

\* C11: whenever the trigger fires with isSpeculating set, no deployment is
\* requested, and when the board has positive-EV squares the intended targets
\* are logged, in every non-idle mode.
C11_DryRunLogsAndNeverDeploys ==
  (~IsNull(ev.auto) /\ Val(ev.auto).fired /\ Val(ev.auto).before.isSpeculating)
    => /\ ~Val(ev.auto).deploy
       /\ PositiveEVSquares(Val(Val(ev.auto).before.currentRoundData),
                            Val(ev.auto).before.priceOreSol) # {}
            => Val(ev.auto).targets # <<>>

\* C12: in mode 1x, 3x or 5x EV (k = 1, 3, 5) on a board with n >= 1
\* positive-EV squares, a firing trigger selects min(k, n) distinct targets,
\* all with EV > 0, in descending EV order, and no square left out has a
\* higher EV than a selected one.
C12_TopKTargets ==
  (/\ ~IsNull(ev.auto)
   /\ Val(ev.auto).fired
   /\ Val(ev.auto).before.appMode \in
        {APP_MODES.ONE_X_EV, APP_MODES.THREE_X_EV, APP_MODES.FIVE_X_EV})
    => LET a == Val(ev.auto)
           rd == Val(a.before.currentRoundData)
           evOf == [i \in 1..NUM_SQUARES |-> SquareEV(rd, a.before.priceOreSol, i)]
           positive == {i \in 1..NUM_SQUARES : evOf[i] > 0}
           n == Cardinality(positive)
           k == CASE a.before.appMode = APP_MODES.ONE_X_EV -> 1
                  [] a.before.appMode = APP_MODES.THREE_X_EV -> 3
                  [] OTHER -> 5
           chosen == {a.targets[i] : i \in 1..Len(a.targets)}
       IN n >= 1 =>
            /\ Len(a.targets) = IF n < k THEN n ELSE k
            /\ Cardinality(chosen) = Len(a.targets)
            /\ chosen \subseteq positive
            /\ \A i \in 1..(Len(a.targets) - 1) :
                 evOf[a.targets[i]] >= evOf[a.targets[i + 1]]
            /\ \A i \in chosen, j \in positive \ chosen : evOf[j] <= evOf[i]

\* a 5x call on the board with six positive-EV squares has fired, and a 3x
\* call on the board with two
C12_Witness ==
  /\ ~IsNull(ev.auto)
  /\ Val(ev.auto).fired
  /\ Val(ev.auto).before.appMode = APP_MODES.FIVE_X_EV
  /\ Val(Val(ev.auto).before.currentRoundData).deployed = WideBoard
  /\ Val(ev.auto).targets = <<6, 5, 4, 3, 2>>

\* C13: in mode 25x EV on a board with n >= 1 positive-EV squares, a firing
\* trigger selects min(25, n) targets, all of positive EV, and logs them in
\* dry-run or hands them to sendDeployTx when a signer is loaded.
C13_Top25Targets ==
  (/\ ~IsNull(ev.auto)
   /\ Val(ev.auto).fired
   /\ Val(ev.auto).before.appMode = APP_MODES.TWENTY_FIVE_X_EV)
    => LET a == Val(ev.auto)
           positive == PositiveEVSquares(Val(a.before.currentRoundData),
                                         a.before.priceOreSol)
       IN positive # {} =>
            /\ {a.targets[i] : i \in 1..Len(a.targets)} = positive
            /\ Len(a.targets) = Cardinality(positive)
            /\ (~a.before.isSpeculating /\ ~IsNull(signerKeypair)) => a.deploy

\* C14: when the trigger fires with dry-run off and no signer loaded, no
\* deployment is requested in that round; after the next round's flag reset
\* a call inside the window in a non-idle mode fires again.
C14_MissingSignerStopsRoundOnly ==
  IsNull(signerKeypair) =>
    /\ (~IsNull(ev.auto) /\ Val(ev.auto).fired
          /\ ~Val(ev.auto).before.isSpeculating)
         => /\ ~Val(ev.auto).deploy
            /\ hist.deploys[Val(ev.auto).trackedId] = 0
    /\ (ev.reset /\ appState.appMode # APP_MODES.IDLE)
         => \A secondsRemaining \in {1, AUTOMATION_TRIGGER_SECONDS} :
              runAutomationCheck(appState, appState.currentRoundData,
                                 secondsRemaining, signerKeypair).fired

\* without a signer the trigger fired on targets in round 0 and, after the
\* reset, fired again in round 1
C14_Witness ==
  /\ IsNull(signerKeypair)
  /\ ~IsNull(ev.auto)
  /\ Val(ev.auto).fired
  /\ ~Val(ev.auto).before.isSpeculating
  /\ Val(ev.auto).targets # <<>>
  /\ Val(ev.auto).trackedId = 1
  /\ hist.fired[0] = 1
  /\ hist.deploys[0] = 0

\* C15: a submitted deploy transaction carries a checkpoint instruction
\* (ORE opcode 2, for round minerRoundId) exactly when minerRoundId differs
\* from minerCheckpointId and is below currentRoundId; the checkpoint stands
\* ahead of the single deploy instruction (ORE opcode 6), which comes last in
\* the one transaction submitted.
C15_CheckpointBeforeDeploy ==
  ~IsNull(ev.submit) =>
    LET e == Val(ev.submit)
        tx == e.transaction
        checkpoints == {i \in 1..Len(tx) : /\ tx[i].programId = ORE_PROGRAM_ID
                                            /\ tx[i].opcode = 2}
        deploys == {i \in 1..Len(tx) : /\ tx[i].programId = ORE_PROGRAM_ID
                                        /\ tx[i].opcode = 6}
        behind == /\ e.minerRoundId # e.minerCheckpointId
                  /\ e.minerRoundId < e.currentRoundId
    IN /\ deploys = {Len(tx)}
       /\ tx[Len(tx)].round = e.currentRoundId
       /\ behind => /\ Cardinality(checkpoints) = 1
                    /\ \A i \in checkpoints :
                         i < Len(tx) /\ tx[i].round = e.minerRoundId
       /\ ~behind => checkpoints = {}

\* a transaction for round 2 with the miner at round 1, last checkpointed at
\* round 0, has been submitted with the checkpoint in it
C15_Witness ==
  /\ ~IsNull(ev.submit)
  /\ Val(ev.submit).currentRoundId = 2
  /\ Val(ev.submit).minerRoundId = 1
  /\ Val(ev.submit).minerCheckpointId = 0
  /\ Len(Val(ev.submit).transaction) = 4
  /\ Val(ev.submit).transaction[3].opcode = 2

\* C16: when a submission is rejected with InvalidAccountData, nothing is
\* surfaced, the application state is as it was, and the deployment is made
\* again by the next call of the trigger inside the window.
C16_TooLateIsRetried ==
  (~IsNull(ev.reject) /\ Val(ev.reject).message = "InvalidAccountData")
    => /\ ~Val(ev.reject).fatal
       /\ appState = Val(ev.reject).before
       /\ Val(ev.reject).currentRoundId = appState.currentRoundId
            => runAutomationCheck(appState, appState.currentRoundData, 4,
                                  signerKeypair).deploy

\* C17: the process never ends because of a failure: not on a malformed
\* wallet file, not on an RPC error while loading the wallet, not on a board
\* account that is missing at startup.
C17_NoFailureTerminates ==
  process \notin FailureExits

\* C18: whenever no processBoardUpdate invocation is in flight,
\* isTransitioningRound is false, also after a decode or RPC error in a round
\* transition.
C18_TransitionFlagCleared ==
  boardTasks = EmptyBag => ~appState.isTransitioningRound

\* the transition from round 0 to round 1 has ended in the catch block and no
\* board handler is left in flight
C18_Witness ==
  /\ ~IsNull(ev.boardError)
  /\ Val(ev.boardError).currentRoundId = 0
  /\ Val(ev.boardError).newRoundId = 1
  /\ 0 \in hist.finalized
  /\ boardTasks = EmptyBag
  /\ ~appState.isTransitioningRound

\* C19: the steps of a board notification for the tracked round (entering
\* the handler on the same-round path, and its resumption at step 4) change
\* nothing but currentBoardData: the round detail, the round flags, the
\* tracked round id and the round subscription stay as they were.
C19_SameRoundRefreshFrame ==
  [][((\E t \in Tasks(boardTasks) :
         t.pc = "refresh" /\ boardTasks' = RemoveTask(boardTasks, t))
      \/ (\E t \in Tasks(boardTasks') :
            t.pc = "refresh" /\ boardTasks' = AddTask(boardTasks, t)))
     => /\ appState' = [appState EXCEPT
                          !.currentBoardData = appState'.currentBoardData]
        /\ subs' = subs]_vars

\* C20: whenever a round is tracked and no processBoardUpdate invocation is
\* in flight, exactly one round subscription is active: the one recorded in
\* roundSubscriptionId, for the tracked round.
C20_OneRoundSubscription ==
  (boardTasks = EmptyBag /\ appState.currentRoundId > -1)
    => /\ ~IsNull(appState.roundSubscriptionId)
       /\ subs = {[id |-> Val(appState.roundSubscriptionId),
                   round |-> appState.currentRoundId]}

\* C21: an announced winner is ((w0 XOR w1 XOR w2 XOR w3) mod 25) + 1 for the
\* four little-endian 8-byte words of the entropy block it was computed from:
\* it lies in 1..25 and depends on the block alone.  The words are compared
\* byte by byte, with 256^k mod 25 = 1, 6, 11, 16, 21, 1, 6, 11 for k = 0..7.
C21_WinnerFromEntropy ==
  ~IsNull(ev.announce) =>
    LET a == Val(ev.announce)
        h == a.slot_hash
        x == [i \in 1..8 |->
                BitXor(BitXor(BitXor(h[i], h[i + 8]), h[i + 16]), h[i + 24])]
        p == <<1, 6, 11, 16, 21, 1, 6, 11>>
        sum == x[1] * p[1] + x[2] * p[2] + x[3] * p[3] + x[4] * p[4]
               + x[5] * p[5] + x[6] * p[6] + x[7] * p[7] + x[8] * p[8]
    IN /\ a.winner \in 1..NUM_SQUARES
       /\ a.winner = (sum % 25) + 1
       /\ appState.lastWinner = a.winner

\* a winner announced from a block with bytes in the top of word 0 and of
\* word 3
C21_Witness ==
  /\ ~IsNull(ev.announce)
  /\ Val(ev.announce).slot_hash[8] = 255
  /\ Val(ev.announce).slot_hash[32] = 201
  /\ Val(ev.announce).slot_hash[1] = 7

\* C22: an all-zero entropy block is never treated as populated: no winner
\* is announced from it, and lastWinner and winnerAnnounced change to an
\* announced winner only on a block with a non-zero byte, on the tick, the
\* re-fetch and the finalization path alike; a block with any non-zero byte
\* counts as populated.
C22_ZeroEntropyNeverPopulated ==
  /\ [](/\ ~IsNull(ev.announce) =>
             \E i \in 1..HASH_BYTES : Val(ev.announce).slot_hash[i] # 0
        /\ ~IsNull(ev.finalize) /\ Val(ev.finalize).slot_hash = ZeroHash =>
             ~Val(ev.finalize).populated /\ IsNull(ev.announce)
        /\ \A r \in Rounds :
             isSlotHashPopulated(rounds[r].slot_hash)
               <=> rounds[r].slot_hash # ZeroHash)
  /\ [][(\/ appState'.lastWinner # appState.lastWinner
         \/ appState'.winnerAnnounced /\ ~appState.winnerAnnounced)
        => /\ ~IsNull(ev'.announce)
           /\ Val(ev'.announce).slot_hash # ZeroHash]_vars

\* round 0 was finalized on an all-zero block and nothing was announced
C22_Witness ==
  /\ ~IsNull(ev.finalize)
  /\ Val(ev.finalize).slot_hash = ZeroHash
  /\ appState.lastWinner = 0
  /\ ~appState.winnerAnnounced

\* C25: computeEVStarForBlock returns y = 0 and EV = -Infinity when O <= 0 or
\* T <= 0, whatever the reward value is, and when the initial pool value
\* (1 - PROTOCOL_CUT) * (T - O) + oreValueInSOL is not positive.
C25_NoStakeNoValue ==
  ~IsNull(args) /\ Val(args).fn = "computeEVStarForBlock"
                /\ ~IsNull(Val(args).out) =>
    LET a == Val(args)
        allFinite == isFinite(a.O) /\ isFinite(a.T) /\ isFinite(a.oreValueInSOL)
    IN (\/ isFinite(a.O) /\ a.O <= 0
        \/ isFinite(a.T) /\ a.T <= 0
        \/ allFinite /\ 9 * (a.T - a.O) + 10 * a.oreValueInSOL <= 0)
       => Val(a.out) = [y |-> 0, EV |-> NegInfinity]

\* a positive stake and total whose initial pool value is exactly zero
C25_Witness ==
  /\ ~IsNull(args) /\ Val(args).fn = "computeEVStarForBlock"
  /\ ~IsNull(Val(args).out)
  /\ Val(args).O = 100 /\ Val(args).T = 100 /\ Val(args).oreValueInSOL = 0
  /\ Val(Val(args).out).EV = NegInfinity

\* C26: computeEVStarForBlock fails closed on non-finite inputs: when any of
\* O, T and the reward value is NaN or infinite it returns y = 0 and
\* EV = -Infinity.
C26_NonFiniteFailsClosed ==
  ~IsNull(args) /\ Val(args).fn = "computeEVStarForBlock"
                /\ ~IsNull(Val(args).out) =>
    LET a == Val(args)
    IN (~isFinite(a.O) \/ ~isFinite(a.T) \/ ~isFinite(a.oreValueInSOL))
       => Val(a.out) = [y |-> 0, EV |-> NegInfinity]

\* C27: for O > 0, T > 0 and a reward value >= 0 with a positive initial pool
\* value, the returned stake y is >= 0, and y = 0 comes with EV exactly 0, also
\* when the loop stops early on a pool value that is not positive.
C27_ZeroStakeZeroEV ==
  ~IsNull(args) /\ Val(args).fn = "computeEVStarForBlock"
                /\ ~IsNull(Val(args).out) =>
    LET a == Val(args)
        r == Val(a.out)
    IN (/\ isFinite(a.O) /\ isFinite(a.T) /\ isFinite(a.oreValueInSOL)
        /\ a.O > 0 /\ a.T > 0 /\ a.oreValueInSOL >= 0
        /\ 9 * (a.T - a.O) + 10 * a.oreValueInSOL > 0)
       => /\ isFinite(r.y) /\ r.y >= 0
          /\ r.y = 0 => r.EV = 0

\* a full square on a small board: the optimum is zero
C27_Witness ==
  /\ ~IsNull(args) /\ Val(args).fn = "computeEVStarForBlock"
  /\ ~IsNull(Val(args).out)
  /\ Val(args).O = 40 /\ Val(args).T = 50 /\ Val(args).oreValueInSOL = 0
  /\ Val(Val(args).out) = [y |-> 0, EV |-> 0]

\* C23: byEV holds exactly the squares whose EV is above zero, each once,
\* from the highest EV down, squares of equal EV by ascending index; bestEV is
\* its first element, or null when it is empty.
C23_ByEVRanking ==
  ~IsNull(args) /\ Val(args).fn = "analyzeBoardState"
                /\ ~IsNull(Val(args).out) =>
    LET a == Val(args)
        r == Val(a.out)
        n == Len(r.byEV)
        positive == IF IsNull(a.roundData) THEN {}
                    ELSE PositiveEVSquares(Val(a.roundData), appState.priceOreSol)
    IN /\ {r.byEV[k].id : k \in 1..n} = positive
       /\ n = Cardinality(positive)
       /\ \A k \in 1..n :
            r.byEV[k].ev = SquareEV(Val(a.roundData), appState.priceOreSol,
                                    r.byEV[k].id)
       /\ \A k \in 1..(n - 1) :
            \/ r.byEV[k].ev > r.byEV[k + 1].ev
            \/ r.byEV[k].ev = r.byEV[k + 1].ev /\ r.byEV[k].id < r.byEV[k + 1].id
       /\ r.bestEV = IF n = 0 THEN Null ELSE Some(r.byEV[1])

\* squares 3 and 7 tie for the best EV, ahead of a third positive square
C23_Witness ==
  /\ ~IsNull(args) /\ Val(args).fn = "analyzeBoardState"
  /\ ~IsNull(Val(args).out)
  /\ Len(Val(Val(args).out).byEV) = 3
  /\ Val(Val(args).out).byEV[1].id = 3
  /\ Val(Val(args).out).byEV[2].id = 7
  /\ Val(Val(args).out).byEV[1].ev = Val(Val(args).out).byEV[2].ev
  /\ Val(Val(args).out).byEV[3].ev < Val(Val(args).out).byEV[2].ev

\* C24: byRatio holds exactly the squares whose stake per participant is
\* above zero and below infinity, each once, from the lowest ratio up, squares
\* of equal ratio by ascending index; bestRatio is its first element, or null
\* when it is empty.
C24_ByRatioRanking ==
  ~IsNull(args) /\ Val(args).fn = "analyzeBoardState"
                /\ ~IsNull(Val(args).out) =>
    LET a == Val(args)
        r == Val(a.out)
        n == Len(r.byRatio)
        inRange == IF IsNull(a.roundData) THEN {}
                   ELSE {i \in 1..NUM_SQUARES :
                           /\ Val(a.roundData).count[i] > 0
                           /\ Val(a.roundData).deployed[i] > 0}
    IN /\ {r.byRatio[k].id : k \in 1..n} = inRange
       /\ n = Cardinality(inRange)
       /\ \A k \in 1..n :
            /\ r.byRatio[k].sol = Val(a.roundData).deployed[r.byRatio[k].id]
            /\ r.byRatio[k].count = Val(a.roundData).count[r.byRatio[k].id]
       /\ \A k \in 1..(n - 1) :
            LET x == r.byRatio[k]
                y == r.byRatio[k + 1]
            IN \/ x.sol * y.count < y.sol * x.count
               \/ x.sol * y.count = y.sol * x.count /\ x.id < y.id
       /\ r.bestRatio = IF n = 0 THEN Null ELSE Some(r.byRatio[1])

\* square 3 (stake 1, one participant) and square 7 (stake 2, two
\* participants) tie for the lowest ratio; square 12 holds no stake
C24_Witness ==
  /\ ~IsNull(args) /\ Val(args).fn = "analyzeBoardState"
  /\ ~IsNull(Val(args).out)
  /\ Len(Val(Val(args).out).byRatio) = NUM_SQUARES - 1
  /\ Val(Val(args).out).byRatio[1] = [id |-> 3, sol |-> 1, count |-> 1]
  /\ Val(Val(args).out).byRatio[2] = [id |-> 7, sol |-> 2, count |-> 2]
  /\ Val(Val(args).roundData).deployed[12] = 0

\* C28: a reward price of 0 (no price fetched, or the fetch failed) is taken
\* as unknown: a trigger that fires at price 0 ranks no square on it and
\* requests no deployment.
C28_ZeroPriceIsUnknown ==
  (~IsNull(ev.auto) /\ Val(ev.auto).fired /\ Val(ev.auto).before.priceOreSol = 0)
    => /\ Val(ev.auto).targets = <<>>
       /\ ~Val(ev.auto).deploy

\* C29: appMode is always one of the five modes and customDeployAmount is
\* always a positive real number; setAppMode with a value outside the
\* enumeration, and setCustomDeployAmount with an input that is not a number,
\* is zero or is negative, return false and leave the state unchanged.
C29_SettingsStayValid ==
  /\ appState.appMode \in AppModeValues
  /\ isFinite(appState.customDeployAmount) /\ appState.customDeployAmount > 0
  /\ ~IsNull(ev.control) =>
       LET c == Val(ev.control)
           text == IF c.fn = "setAppMode" THEN <<>> ELSE TrimStart(c.input)
           body == IF text # <<>> /\ Head(text) \in {"+", "-"}
                   THEN Tail(text) ELSE text
           points == {i \in 1..Len(body) : body[i] = "."}
           \* a decimal numeral: digits with at most one point among them
           numeric == /\ \A i \in 1..Len(body) : body[i] \in DOMAIN DigitValue \/ body[i] = "."
                      /\ Cardinality(points) <= 1
                      /\ Len(body) > Cardinality(points)
           positive == /\ \E i \in 1..Len(body) :
                            body[i] \in DOMAIN DigitValue /\ body[i] # "0"
                       /\ Head(text) # "-"
           rejected == ~c.ok /\ appState = c.before
       IN /\ c.fn = "setAppMode" /\ c.input \notin AppModeValues => rejected
          /\ c.fn = "setCustomDeployAmount" /\ ~(numeric /\ positive)
               => rejected

\* C30: a tick's seconds remaining are floor(slots left * 400 / 1000), not
\* below zero; with seconds remaining above zero winnerAnnounced is cleared
\* and the trigger is called with that value, with none remaining the trigger
\* is not called; the trigger fires only with 3 to 22 slots left.
C30_CountdownAndTrigger ==
  ~IsNull(ev.tick) =>
    LET slots == Val(ev.tick).slotsRemaining
        seconds == IF slots <= 0 THEN 0 ELSE (slots * 400) \div 1000
    IN /\ seconds > 0 =>
            /\ ~appState.winnerAnnounced
            /\ ~IsNull(ev.auto)
            /\ Val(ev.auto).secondsRemaining = seconds
       /\ seconds <= 0 => IsNull(ev.auto)
       /\ ~IsNull(ev.auto) /\ Val(ev.auto).fired => slots \in 3..22

\* C31: the deploy instruction's data is 13 bytes: opcode 6, the amount as an
\* 8-byte little-endian integer, then a 4-byte little-endian mask whose bit i
\* (0..24) is set exactly when square i+1 is among the targets; ids outside
\* 1..25 are ignored, repeated ids set the bit once, bits 25..31 are 0.
C31_DeployPayload ==
  (~IsNull(args) /\ Val(args).fn = "deployData" /\ ~IsNull(Val(args).out))
  => LET d == Val(Val(args).out)
         targets == Val(args).targets
         ids == {targets[k] : k \in 1..Len(targets)}
     IN /\ Len(d) = 13
        /\ d[1] = 6
        /\ \A k \in 2..13 : d[k] \in 0..255
        /\ d[2] + 256 * d[3] + 65536 * d[4] + 16777216 * d[5]
             = Val(args).amountLamports
        /\ \A k \in 6..9 : d[k] = 0
        /\ \A i \in 0..24 :
             ((d[10 + (i \div 8)] \div Pow2(i % 8)) % 2 = 1) <=> (i + 1 \in ids)
        /\ d[13] \div 2 = 0

\* a payload was built for a repeated id, an id past 25 and an id in the
\* mask's second byte, with an amount of more than one byte
C31_Witness ==
  /\ ~IsNull(args)
  /\ Val(args).fn = "deployData"
  /\ ~IsNull(Val(args).out)
  /\ Val(args).targets = <<9, 26, 9>>
  /\ Val(args).amountLamports = 100000
  /\ Val(Val(args).out) = <<6, 160, 134, 1, 0, 0, 0, 0, 0, 0, 1, 0, 0>>

\* C32: expected rejections count as success: sendClaimSolTx returns true on
\* a rejection whose message contains 'custom program error', does not log a
\* failure, and the cash out goes on to its balance and transfer steps;
\* sendCheckpointTx returns true on the rejection with custom program error
\* 0x1 and does not hand it to the fatal error handler.
C32_ExpectedRejectionsSucceed ==
  ~IsNull(ev.cash) =>
    LET c == Val(ev.cash)
        e == Val(c.error)
        text == IF e.message # <<>> THEN e.message
                ELSE IF ~IsNull(e.logs) THEN Val(e.logs) ELSE <<>>
    IN /\ (/\ c.fn = "sendClaimSolTx"
           /\ ~IsNull(c.error)
           /\ \E i \in 1..Len(e.message) :
                e.message[i] = "custom program error")
          => /\ c.returned = Some(TRUE)
             /\ c.logged = "no pending rewards"
             /\ ~IsNull(c.task)
             /\ Val(c.task).pc = "getBalance"
             /\ Val(c.task) \in Tasks(cashTasks)
       /\ (/\ c.fn = "sendCheckpointTx"
           /\ ~IsNull(c.error)
           /\ Len(text) >= 4
           /\ SubSeq(text, Len(text) - 3, Len(text))
                = <<"custom program error", ": ", "0x", "1">>)
          => /\ c.returned = Some(TRUE)
             /\ c.logged = "already done or not needed"

\* a cash out whose claim was rejected with a custom program error has
\* submitted its transfer
C32_Witness ==
  /\ ~IsNull(ev.cash)
  /\ Val(ev.cash).submitted = "transfer"
  /\ ~IsNull(Val(Val(ev.cash).task).claimError)
  /\ Val(Val(ev.cash).task).claimSuccess = Some(TRUE)

\* C33: cash out runs claim, balance fetch, transfer in that order: a
\* transfer is submitted only by an invocation whose claim returned success
\* and whose balance fetch answered with more than the 5000 lamports of the
\* fee buffer, for the balance less 5000; a failed claim or a failed balance
\* fetch ends the invocation.  The mode is idle when the sequence starts, the
\* trigger never fires in idle mode, and the mode leaves idle only by a
\* step that sets the mode and nothing else (the user's mode key).
C33_CashOutSequence ==
  /\ [](/\ ~IsNull(ev.cash) =>
             LET c == Val(ev.cash)
             IN /\ c.submitted = "transfer" =>
                     /\ Val(c.task).claimSuccess = Some(TRUE)
                     /\ ~IsNull(Val(c.task).newBalance)
                     /\ Val(Val(c.task).newBalance) - 5000 > 0
                     /\ Val(c.task).lamports
                          = Some(Val(Val(c.task).newBalance) - 5000)
                /\ c.returned = Some(FALSE) /\ c.fn = "sendClaimSolTx" =>
                     IsNull(c.task)
                /\ c.logged = "FAILED" => IsNull(c.task)
                /\ c.logged = "wallet is empty" =>
                     /\ c.submitted = "none"
                     /\ Val(c.task) \notin Tasks(cashTasks)
                /\ c.submitted = "claim" => appState.appMode = APP_MODES.IDLE
        /\ \A t \in Tasks(cashTasks) :
             /\ t.pc \in {"transfer: sendAndConfirmTransaction",
                          "final: getBalance"} =>
                  /\ t.claimSuccess = Some(TRUE)
                  /\ ~IsNull(t.newBalance)
                  /\ t.lamports = Some(Val(t.newBalance) - 5000)
                  /\ Val(t.lamports) > 0
             /\ t.pc = "getBalance" => t.claimSuccess = Some(TRUE)
             /\ t.pc \in {"claim: sendAndConfirmTransaction",
                          "claim: getBalance"} =>
                  IsNull(t.claimSuccess) /\ IsNull(t.newBalance))
  /\ [][/\ (\E r \in Rounds : hist'.fired[r] # hist.fired[r])
             => appState.appMode # APP_MODES.IDLE
        /\ (appState.appMode = APP_MODES.IDLE
              /\ appState'.appMode # APP_MODES.IDLE)
             => /\ appState' = [appState EXCEPT !.appMode = appState'.appMode]
                /\ UNCHANGED <<cashTasks, hist, deployTasks>>
                /\ IsNull(ev'.cash) /\ IsNull(ev'.auto)
        /\ \A u \in Tasks(cashTasks') :
             u \notin Tasks(cashTasks) =>
               \/ u.pc = "claim: sendAndConfirmTransaction"
               \/ \E t \in Tasks(cashTasks) :
                    <<t.pc, u.pc>> \in
                      {<<"claim: sendAndConfirmTransaction",
                         "claim: getBalance">>,
                       <<"claim: sendAndConfirmTransaction", "getBalance">>,
                       <<"claim: getBalance", "getBalance">>,
                       <<"getBalance",
                         "transfer: sendAndConfirmTransaction">>,
                       <<"transfer: sendAndConfirmTransaction",
                         "final: getBalance">>}]_vars

\* a transfer of 2000 lamports was submitted after a successful claim and a
\* balance of 7000, in idle mode
C33_Witness ==
  /\ ~IsNull(ev.cash)
  /\ Val(ev.cash).submitted = "transfer"
  /\ Val(Val(ev.cash).task).claimSuccess = Some(TRUE)
  /\ IsNull(Val(Val(ev.cash).task).claimError)
  /\ Val(Val(ev.cash).task).newBalance = Some(7000)
  /\ Val(Val(ev.cash).task).lamports = Some(2000)
  /\ appState.appMode = APP_MODES.IDLE

\* C34: a decode error on a board or a round notification skips the update:
\* the board snapshot, the round detail, the tracked round id and the round
\* flags are as before, the error is logged, and no handler, tick or
\* subscription is added or dropped, so that the next notification or tick
\* finds what it would have found without the error.
C34_DecodeErrorSkipsUpdate ==
  [][~IsNull(ev'.decodeError) =>
       /\ appState'.currentBoardData = appState.currentBoardData
       /\ appState'.currentRoundData = appState.currentRoundData
       /\ appState'.currentRoundId = appState.currentRoundId
       /\ appState'.automationHasRunThisRound
            = appState.automationHasRunThisRound
       /\ appState'.checkpointHasRunThisRound
            = appState.checkpointHasRunThisRound
       /\ appState'.winnerAnnounced = appState.winnerAnnounced
       /\ Val(ev'.decodeError) = "parsing Round update" => appState' = appState
       /\ UNCHANGED <<boardTasks, tickTasks, deployTasks, subs, nextSubId,
                      hist, signerKeypair, process>>]_vars

\* a board notification failed to decode while round 1 was tracked with its
\* snapshot and its detail
C34_Witness ==
  /\ ev.decodeError = Some("processing board update")
  /\ appState.currentRoundId = 1
  /\ ~IsNull(appState.currentBoardData)
  /\ ~IsNull(appState.currentRoundData)

\* C35: the EV computeEVStarForBlock returns is the final formula evaluated
\* with the pool value recomputed for the returned y:
\* EV = P_WIN * (-24 y + V_final y / (O + y)) - ADMIN_COST_FACTOR y with
\* V_final = (1 - PROTOCOL_CUT) (T - O - y) + oreValueInSOL.
C35_FinalPoolValue ==
  (/\ ~IsNull(args)
   /\ Val(args).fn = "computeEVStarForBlock"
   /\ ~IsNull(Val(args).out)
   /\ isFinite(Val(Val(args).out).y)
   /\ Val(Val(args).out).y > 0)
  => LET a == Val(args)
         y == Val(a.out).y
         V_final == PoolValue10(a.O, a.T, y, a.oreValueInSOL)
     IN Val(a.out).EV
          = 99 * ((V_final * y) \div (a.O + y) - 240 * y) - 250 * y

\* C36: when sendDeployTx skips a deployment because the round's account is
\* not found or not initialized, the deployment is made again by the next
\* call of the trigger inside the window of the same round.
C36_SkippedDeployIsRetried ==
  (/\ ~IsNull(ev.reject)
   /\ Val(ev.reject).message \in {"deploy skipped: account not found",
                                  "deploy skipped: not initialized"}
   /\ Val(ev.reject).currentRoundId = appState.currentRoundId)
  => runAutomationCheck(appState, appState.currentRoundData, 4,
                        signerKeypair).deploy

\* C37: the tracked round id never decreases: once currentRoundId is r >= 0
\* no later step sets it to a value below r, however the board handlers
\* interleave.
C37_TrackedRoundNeverDecreases ==
  [][appState.currentRoundId >= 0
       => appState'.currentRoundId >= appState.currentRoundId]_vars


\* Three consecutive rounds with nothing held apart: board handlers overlap
\* one another and the ticks of setInterval
NextRace ==
  \/ AdvanceSlot
  \/ LedgerReset(MaxRound)
  \/ BoardNotify
  \/ BoardFinalizeReply
  \/ BoardRefreshReply
  \/ BoardUnsubReply
  \/ BoardFetchReply
  \/ TickStart
  \/ TickActive
  \/ TickEnded
  \/ TickRefetchReply

SpecRace == Init /\ [][NextRace]_vars

\* C38: runAutomationCheck is never executed in a state where
\* isTransitioningRound is true: a tick that read the flag before awaiting the
\* slot RPC does not invoke the trigger once a transition has begun
C38_NoTriggerWhileTransitioning ==
  ~IsNull(ev.auto) => ~Val(ev.auto).before.isTransitioningRound


\* C39: once the trigger has fired in a round and found no deployable target,
\* automationHasRunThisRound stays set and no deployment request is issued
\* later in that round, even when the analysis would by then find a
\* positive-EV square
C39_NoRetryAfterEmptyAnalysis ==
  [][LET k == appState.currentRoundId
     IN (/\ hist.fired[k] > 0
         /\ hist.deploys[k] = 0
         /\ ~appState.isSpeculating
         /\ ~IsNull(signerKeypair)
         /\ appState'.currentRoundId = k)
        => /\ appState'.automationHasRunThisRound
           /\ hist'.deploys[k] = 0]_vars

C39_Witness ==
  /\ ~IsNull(ev.auto)
  /\ Val(ev.auto).before.automationHasRunThisRound
  /\ Val(ev.auto).secondsRemaining > 0
  /\ Val(ev.auto).secondsRemaining <= AUTOMATION_TRIGGER_SECONDS
  /\ ~Val(ev.auto).deploy
  /\ ~appState.isSpeculating
  /\ ~IsNull(signerKeypair)
  /\ hist.fired[appState.currentRoundId] = 1
  /\ hist.deploys[appState.currentRoundId] = 0
  /\ ~IsNull(analyzeBoardState(appState.currentRoundData,
                               appState.priceOreSol).bestEV)


\* C40: a deployment is built for the round that was tracked when the trigger
\* fired: the deploy instruction and the checkpoint condition use the
\* currentRoundId that sendDeployTx read before its first await, whatever
\* round is tracked by the time the transaction is built
C40_DeployBuiltForTriggerRound ==
  ~IsNull(ev.submit) =>
    LET s == Val(ev.submit)
        tx == s.transaction
        deploy == tx[Len(tx)]
        checkpoints == {i \in 1..Len(tx) : /\ tx[i].programId = ORE_PROGRAM_ID
                                           /\ tx[i].opcode = 2}
    IN /\ deploy.programId = ORE_PROGRAM_ID
       /\ deploy.opcode = 6
       /\ deploy.round = s.currentRoundId
       /\ hist.deploys[deploy.round] > 0
       /\ (checkpoints # {}) <=> (/\ s.minerRoundId # s.minerCheckpointId
                                  /\ s.minerRoundId < s.currentRoundId)

C40_Witness ==
  /\ ~IsNull(ev.submit)
  /\ appState.currentRoundId > Val(ev.submit).currentRoundId
  /\ hist.deploys[appState.currentRoundId] = 0
  /\ Val(ev.submit).minerRoundId # Val(ev.submit).minerCheckpointId
  /\ Val(ev.submit).minerRoundId = Val(ev.submit).currentRoundId
  /\ LET tx == Val(ev.submit).transaction
     IN tx[Len(tx)].round = Val(ev.submit).currentRoundId

====
